---- MODULE Spec2Model ----
(***************************************************************************)
(* Model of node-traffic-logger: the HAR formatter (har-formatter.cjs),    *)
(* the HAR logger (har-logger.cjs) and the request/axios wrappers that     *)
(* drive them.  Strings are TLA+ strings; Len, \o and SubSeq are applied   *)
(* to them as JavaScript applies length, + and substring.                  *)
(***************************************************************************)
EXTENDS Integers, Sequences, FiniteSets, TLC

(***************************************************************************)
(* Bounds of the model.                                                    *)
(***************************************************************************)
MaxTime == 1
MaxEntries == 2
MaxEnds == 2
MaxHarEntries == 1
MaxPieces == 5
MaxChunks == 3
MaxLayers == 2
MaxEvents == 3
MaxBlocks == 3
\* cells of a heap given to formatJson
MaxCells == 2
\* the depth of calls the stack of the engine has room for
MaxStack == 4
\* attribute segments of a cookie string
MaxSegments == 2

(***************************************************************************)
(* JavaScript values.  A value is tagged with its type so that values of   *)
(* different types can be compared.                                        *)
(***************************************************************************)
Undefined == [t |-> "undefined"]
Null == [t |-> "null"]
S(s) == [t |-> "str", v |-> s]
N(n) == [t |-> "num", v |-> n]
A(seq) == [t |-> "arr", v |-> seq]
Obj(pairs) == [t |-> "obj", v |-> pairs]

Truthy(x) ==
  CASE x.t = "undefined" -> FALSE
    [] x.t = "null" -> FALSE
    [] x.t = "str" -> x.v # ""
    [] x.t = "num" -> x.v # 0
    [] OTHER -> TRUE

\* body applied to a value computed once (const x = value; ...)
With(value, Body(_)) == Body(value)

\* a || b
Or(a, b) == IF Truthy(a) THEN a ELSE b

\* headers[name] on an object; an array of pairs has no such property
Get(headers, name) ==
  IF headers.t = "obj" /\ \E i \in 1..Len(headers.v) : headers.v[i][1] = name
    THEN headers.v[CHOOSE i \in 1..Len(headers.v) : headers.v[i][1] = name][2]
    ELSE Undefined

\* reading a property of undefined or null raises a TypeError
CanIndex(headers) == headers.t \notin {"undefined", "null"}

(***************************************************************************)
(* String helpers, after the methods of String.prototype.                   *)
(***************************************************************************)
CharAt(s, i) == SubSeq(s, i, i)

StartsWith(s, p) == Len(s) >= Len(p) /\ SubSeq(s, 1, Len(p)) = p

\* s.includes(sub)
Contains(s, sub) == \E i \in 1..(Len(s) - Len(sub) + 1) : SubSeq(s, i, i + Len(sub) - 1) = sub

\* s.indexOf(c), 1-based, 0 when absent
IndexOf(s, c) ==
  IF Contains(s, c)
    THEN CHOOSE i \in 1..Len(s) : /\ SubSeq(s, i, i + Len(c) - 1) = c
                                  /\ \A j \in 1..(i - 1) : SubSeq(s, j, j + Len(c) - 1) # c
    ELSE 0

RECURSIVE Split(_, _)
\* s.split(c) for a one-character separator
Split(s, c) ==
  LET i == IndexOf(s, c)
  IN IF i = 0 THEN <<s>> ELSE <<SubSeq(s, 1, i - 1)>> \o Split(SubSeq(s, i + 1, Len(s)), c)

\* the white space String.prototype.trim removes
WhiteSpace == {" ", "\t", "\n", "\r"}

RECURSIVE TrimLeft(_)
TrimLeft(s) == IF s # "" /\ CharAt(s, 1) \in WhiteSpace THEN TrimLeft(Tail(s)) ELSE s

RECURSIVE TrimRight(_)
TrimRight(s) ==
  IF s # "" /\ CharAt(s, Len(s)) \in WhiteSpace
    THEN TrimRight(SubSeq(s, 1, Len(s) - 1)) ELSE s

Trim(s) == TrimRight(TrimLeft(s))

Upper == "ABCDEFGHIJKLMNOPQRSTUVWXYZ"
Lower == "abcdefghijklmnopqrstuvwxyz"

LowerChar(c) ==
  IF Contains(Upper, c) THEN CharAt(Lower, IndexOf(Upper, c)) ELSE c

RECURSIVE ToLowerCase(_)
ToLowerCase(s) == IF s = "" THEN "" ELSE LowerChar(CharAt(s, 1)) \o ToLowerCase(Tail(s))

\* element i of a split result, undefined when the split has fewer pieces
Piece(parts, i) == IF i <= Len(parts) THEN S(parts[i]) ELSE Undefined

RECURSIVE StringOf(_)
RECURSIVE Join(_, _)

\* an element as Array.prototype.join renders it
JoinElem(x) == IF x.t \in {"null", "undefined"} THEN "" ELSE StringOf(x)

\* seq.join(sep)
Join(seq, sep) ==
  IF Len(seq) = 0 THEN ""
  ELSE IF Len(seq) = 1 THEN JoinElem(seq[1])
  ELSE JoinElem(seq[1]) \o sep \o Join(Tail(seq), sep)

\* String(value)
StringOf(x) ==
  CASE x.t = "str" -> x.v
    [] x.t = "num" -> ToString(x.v)
    [] x.t = "null" -> "null"
    [] x.t = "undefined" -> "undefined"
    [] x.t = "arr" -> Join(x.v, ",")
    [] OTHER -> "[object Object]"

Max(a, b) == IF a >= b THEN a ELSE b

\* Buffer.byteLength of a string of one-byte characters
ByteLength(s) == Len(s)

\* new Date(t).toISOString() for the first milliseconds of the epoch
ToISOString(t) == "1970-01-01T00:00:00.00" \o ToString(t) \o "Z"

(***************************************************************************)
(* HarFormatter: the derivations of an entry's fields.                     *)
(***************************************************************************)
\* HarFormatter.formatHeaders; names of array-form headers are strings
formatHeaders(headers) ==
  IF ~Truthy(headers) \/ headers.t \notin {"obj", "arr"} THEN <<>>
  ELSE IF headers.t = "arr"
    THEN IF \E i \in 1..Len(headers.v) : ~CanIndex(headers.v[i])
           THEN <<>>
           ELSE [i \in 1..Len(headers.v) |->
                  LET h == headers.v[i]
                      value == Get(h, "value")
                  IN [name |-> StringOf(Or(Get(h, "name"), S(""))),
                      value |-> IF value.t \in {"null", "undefined"} THEN "" ELSE StringOf(value)]]
    ELSE [i \in 1..Len(headers.v) |->
           LET name == headers.v[i][1]
               value == headers.v[i][2]
           IN IF value.t = "arr"
                THEN [name |-> name, value |-> Join(value.v, ", ")]
                ELSE [name |-> name,
                      value |-> IF value.t \in {"null", "undefined"} THEN "" ELSE StringOf(value)]]

RECURSIVE CookiesOfParts(_)
\* the loop of extractCookies over the ';'-separated parts
CookiesOfParts(parts) ==
  IF Len(parts) = 0 THEN <<>>
  ELSE LET nv == Split(Trim(parts[1]), "=")
           name == nv[1]
           value == Piece(nv, 2)
       IN (IF name # "" THEN <<[name |-> name, value |-> StringOf(Or(value, S("")))]>> ELSE <<>>)
          \o CookiesOfParts(Tail(parts))

\* HarFormatter.extractCookies
extractCookies(headers) ==
  IF ~Truthy(headers) THEN <<>>
  ELSE LET cookieHeader == Or(Or(Get(headers, "cookie"), Get(headers, "Cookie")), S(""))
       IN IF cookieHeader.t = "str" /\ Len(cookieHeader.v) > 0
            THEN CookiesOfParts(Split(cookieHeader.v, ";"))
            ELSE <<>>

RECURSIVE CookieAttributes(_, _)
\* the attribute loop of extractSetCookies: later attributes overwrite
CookieAttributes(cookie, attributes) ==
  IF Len(attributes) = 0 THEN cookie
  ELSE LET av == Split(Trim(attributes[1]), "=")
           lowerName == ToLowerCase(av[1])
           attrValue == Piece(av, 2)
           c1 == IF lowerName = "expires" THEN ("expires" :> attrValue) @@ cookie ELSE cookie
           c2 == IF lowerName = "path" THEN ("path" :> attrValue) @@ c1 ELSE c1
           c3 == IF lowerName = "domain" THEN ("domain" :> attrValue) @@ c2 ELSE c2
           c4 == IF lowerName = "httponly" THEN ("httpOnly" :> N(1)) @@ c3 ELSE c3
           c5 == IF lowerName = "secure" THEN ("secure" :> N(1)) @@ c4 ELSE c4
       IN CookieAttributes(c5, Tail(attributes))

\* the cookie strings extractSetCookies iterates over
SetCookieStrings(headers) ==
  LET setCookieHeader == Or(Get(headers, "set-cookie"), Get(headers, "Set-Cookie"))
  IN IF ~Truthy(headers) \/ ~Truthy(setCookieHeader) THEN <<>>
     ELSE IF setCookieHeader.t = "arr" THEN setCookieHeader.v ELSE <<setCookieHeader>>

\* cookieStr.split raises a TypeError when a cookie is not a string
extractSetCookiesThrows(headers) ==
  \E i \in 1..Len(SetCookieStrings(headers)) : SetCookieStrings(headers)[i].t # "str"

RECURSIVE SetCookiesOf(_)
SetCookiesOf(cookieStrings) ==
  IF Len(cookieStrings) = 0 THEN <<>>
  ELSE LET parts == Split(cookieStrings[1].v, ";")
           nameValue == parts[1]
           nv == Split(Trim(nameValue), "=")
           name == nv[1]
           value == Piece(nv, 2)
       IN (IF nameValue = "" \/ name = "" THEN <<>>
           ELSE <<CookieAttributes([name |-> S(name), value |-> Or(value, S(""))], Tail(parts))>>)
          \o SetCookiesOf(Tail(cookieStrings))

\* HarFormatter.extractSetCookies; true is N(1) in the httpOnly and secure fields
extractSetCookies(headers) == SetCookiesOf(SetCookieStrings(headers))

RECURSIVE PlusToSpace(_)
PlusToSpace(s) ==
  IF s = "" THEN ""
  ELSE (IF CharAt(s, 1) = "+" THEN " " ELSE CharAt(s, 1)) \o PlusToSpace(Tail(s))

RECURSIVE ParamsOfPairs(_)
ParamsOfPairs(pairs) ==
  IF Len(pairs) = 0 THEN <<>>
  ELSE LET p == pairs[1]
           i == IndexOf(p, "=")
       IN (IF p = "" THEN <<>>
           ELSE IF i = 0 THEN <<[name |-> PlusToSpace(p), value |-> ""]>>
           ELSE <<[name |-> PlusToSpace(SubSeq(p, 1, i - 1)),
                   value |-> PlusToSpace(SubSeq(p, i + 1, Len(p)))]>>)
          \o ParamsOfPairs(Tail(pairs))

\* the entries of new URLSearchParams(query), for queries without percent escapes
SearchParams(query) == ParamsOfPairs(Split(query, "&"))

\* the text before the first of the given separators
Before(s, c) == IF IndexOf(s, c) = 0 THEN s ELSE SubSeq(s, 1, IndexOf(s, c) - 1)

After(s, c) == IF IndexOf(s, c) = 0 THEN "" ELSE SubSeq(s, IndexOf(s, c) + Len(c), Len(s))

\* HarFormatter.extractQueryParams: new URL raises on an empty authority
extractQueryParams(urlString) ==
  LET absolute == IF ~StartsWith(urlString, "http://") /\ ~StartsWith(urlString, "https://")
                    THEN "http://example.com" \o (IF StartsWith(urlString, "/") THEN "" ELSE "/")
                         \o urlString
                    ELSE urlString
      rest == After(absolute, "://")
      authority == Before(Before(Before(rest, "/"), "?"), "#")
      search == After(Before(rest, "#"), "?")
  IN IF authority = "" THEN <<>> ELSE SearchParams(search)

RECURSIVE SumHeaderSizes(_)
SumHeaderSizes(harHeaders) ==
  IF Len(harHeaders) = 0 THEN 0
  ELSE Len(harHeaders[1].name) + 2 + Len(harHeaders[1].value) + 2 + SumHeaderSizes(Tail(harHeaders))

\* HarFormatter.calculateHeadersSize
calculateHeadersSize(harHeaders) == SumHeaderSizes(harHeaders) + 2

(***************************************************************************)
(* State.                                                                  *)
(***************************************************************************)
VARIABLES
  now,                  \* Date.now()
  formatter,            \* the HarFormatter singleton
  files,                \* the file system: path -> text written by saveHar
  timers,               \* handles of the armed setInterval timers
  loggedRequests,       \* har-logger: keys of the requests seen
  loggedResponses,      \* har-logger: keys of the responses applied
  pendingRequestIds,    \* har-logger: the pending set, in insertion order
  requestUrlMap,        \* har-logger: requestId -> url
  requestMethodMap,     \* har-logger: requestId -> method
  axiosRequestIdMap,    \* har-logger: tracking id -> requestId
  exitHandlerRegistered,\* har-logger: exitHandlerRegistered
  beforeExit,           \* process: number of beforeExit listeners installed
  exited,               \* process: the beforeExit listeners have run and the process ended
  reqs,                 \* the requests made through the wrappers
  last                  \* the last call and what it returned

vars == <<now, formatter, files, timers, loggedRequests, loggedResponses,
          pendingRequestIds, requestUrlMap, requestMethodMap, axiosRequestIdMap,
          exitHandlerRegistered, beforeExit, exited, reqs, last>>

loggerVars == <<loggedRequests, loggedResponses, pendingRequestIds, requestUrlMap,
                requestMethodMap, axiosRequestIdMap>>

processVars == <<exitHandlerRegistered, beforeExit, exited>>

\* function f with key k set to v (Map.prototype.set)
MapSet(f, k, v) == (k :> v) @@ f

\* function f without key k (Map.prototype.delete)
MapDelete(f, k) == [x \in (DOMAIN f) \ {k} |-> f[x]]

EmptyMap == [x \in {} |-> 0]

PackageVersion == "1.0.0"

\* HarFormatter.addPage
addPage(f, pageData, t) ==
  LET page == [startedDateTime |-> ToISOString(t),
               id |-> pageData.id,
               title |-> pageData.title,
               pageTimings |-> [onContentLoad |-> -1, onLoad |-> -1]]
  IN [f EXCEPT !.harData.log.pages = Append(@, page)]

\* HarFormatter constructor
NewHarFormatter(t) ==
  addPage([harData |-> [log |-> [version |-> "1.2",
                                  creator |-> [name |-> "node-traffic-logger",
                                               version |-> PackageVersion],
                                  pages |-> <<>>,
                                  entries |-> <<>>,
                                  comment |-> Undefined,
                                  browser |-> Undefined]],
           logFile |-> Null,
           requestMap |-> EmptyMap,
           requestTimings |-> EmptyMap,
           pageRef |-> "page_" \o ToString(t),
           startTime |-> t,
           entryMap |-> EmptyMap,
           autoSaveInterval |-> 0],
          [id |-> "page_" \o ToString(t),
           title |-> "HTTP Traffic Log - " \o ToISOString(t)],
          t)

\* JSON.stringify(this.harData, null, 2): a point-in-time copy of the document
\* in which the properties of log whose value is undefined are left out
Stringify(harData) ==
  LET log == harData.log
      optional == {k \in {"comment", "browser"} : log[k].t # "undefined"}
  IN [log |-> [k \in {"version", "creator", "pages", "entries"} \union optional |->
                IF k \in optional THEN log[k].v ELSE log[k]]]

\* saveHar that writes the file only when there is none yet
saveHar_Stale(f, fs) ==
  IF Truthy(f.logFile) /\ f.logFile.v \notin DOMAIN fs
    THEN MapSet(fs, f.logFile.v, Stringify(f.harData)) ELSE fs

\* HarFormatter.saveHar: the file system after the call
saveHar(f, fs) ==
  IF Truthy(f.logFile) THEN MapSet(fs, f.logFile.v, Stringify(f.harData)) ELSE fs

\* HarFormatter.addSystemLog
addSystemLog(f, message, t) ==
  IF message = "" THEN f
  ELSE LET comment == IF ~Truthy(f.harData.log.comment) THEN "" ELSE f.harData.log.comment.v
       IN [f EXCEPT !.harData.log.comment =
                       S(comment \o ToISOString(t) \o " - " \o message \o "\n")]

\* HarFormatter.startRequest
startRequest(f, requestId, t) ==
  [f EXCEPT !.requestTimings =
     MapSet(@, requestId,
            [startTime |-> t,
             phases |-> [blocked |-> -1, dns |-> -1, connect |-> -1, ssl |-> -1,
                         send |-> 0, wait |-> 0, receive |-> 0]])]

\* HarFormatter.updateTiming
updateTiming(f, requestId, phase, duration) ==
  IF requestId \in DOMAIN f.requestTimings
    THEN [f EXCEPT !.requestTimings[requestId].phases[phase] = duration]
    ELSE f

\* the response sub-record attached by addRequest
PlaceholderResponse ==
  [status |-> 0, statusText |-> "", httpVersion |-> "HTTP/1.1", cookies |-> <<>>,
   headers |-> <<>>, content |-> [size |-> 0, mimeType |-> S(""), text |-> ""],
   redirectURL |-> S(""), headersSize |-> -1, bodySize |-> -1]

\* contentType.includes(text) for a string or an array; anything else has no includes
Includes(contentType, text) ==
  IF contentType.t = "str" THEN Contains(contentType.v, text)
  ELSE \E i \in 1..Len(contentType.v) : contentType.v[i] = S(text)

\* the postData of addRequest for a truthy body
PostDataOf(headers, body) ==
  LET contentType == Or(Or(Get(headers, "Content-Type"), Get(headers, "content-type")), S(""))
      bodyText == StringOf(body)
      params == IF Includes(contentType, "application/x-www-form-urlencoded")
                  THEN SearchParams(bodyText) ELSE <<>>
      postData == [mimeType |-> contentType, text |-> bodyText]
  IN IF Len(params) > 0 THEN ("params" :> params) @@ postData ELSE postData

\* addRequest raises where it reads the content type of a body
addRequestThrows(requestData) ==
  /\ Truthy(requestData.body)
  /\ \/ ~CanIndex(requestData.headers)
     \/ Or(Or(Get(requestData.headers, "Content-Type"),
              Get(requestData.headers, "content-type")), S("")).t \notin {"str", "arr"}

\* the entry built by addRequest
NewEntry(f, requestData, t) ==
  LET headers == requestData.headers
      body == requestData.body
      request == With(formatHeaders(headers), LAMBDA harHeaders :
                   [method |-> requestData.method,
                    url |-> requestData.url,
                    httpVersion |-> requestData.httpVersion,
                    cookies |-> extractCookies(headers),
                    headers |-> harHeaders,
                    queryString |-> extractQueryParams(requestData.url),
                    headersSize |-> calculateHeadersSize(harHeaders),
                    bodySize |-> IF Truthy(body) THEN ByteLength(StringOf(body)) ELSE 0])
  IN [pageref |-> f.pageRef,
      startedDateTime |-> ToISOString(t),
      time |-> 0,
      request |-> (IF Truthy(body) THEN "postData" :> PostDataOf(headers, body)
                   ELSE EmptyMap) @@ request,
      response |-> PlaceholderResponse,
      cache |-> <<>>,
      timings |-> [blocked |-> -1, dns |-> -1, connect |-> -1, ssl |-> -1,
                   send |-> 0, wait |-> 0, receive |-> 0],
      serverIPAddress |-> "",
      securityDetails |-> IF requestData.isHttps THEN S("TLS") ELSE Null,
      meta |-> [interceptorType |-> requestData.interceptorType]]

\* addRequest putting the new entry first
addRequest_Prepend(f, requestData, t) ==
  LET f1 == startRequest(f, requestData.requestId, t)
  IN [f1 EXCEPT !.entryMap = MapSet(@, requestData.requestId, 1),
                !.requestMap = MapSet(@, requestData.requestId, 1),
                !.harData.log.entries = <<NewEntry(f, requestData, t)>> \o @]

\* HarFormatter.addRequest: the formatter after the call.  entryMap holds the
\* entry object, which is the one at that index of log.entries.
addRequest(f, requestData, t) ==
  LET f1 == startRequest(f, requestData.requestId, t)
      index == Len(f.harData.log.entries) + 1
  IN IF addRequestThrows(requestData) THEN f1
     ELSE [f1 EXCEPT !.entryMap = MapSet(@, requestData.requestId, index),
                     !.requestMap = MapSet(@, requestData.requestId, index),
                     !.harData.log.entries = Append(@, NewEntry(f, requestData, t))]

\* Math.round(totalTime * tenths / 10)
RoundShare(totalTime, tenths) == (totalTime * tenths * 2 + 10) \div 20

\* phase || fallback
OrNum(phase, fallback) == IF phase # 0 THEN phase ELSE fallback

\* the timings addResponse derives from the recorded phases
TimingsOf(timing, totalTime) ==
  [blocked |-> OrNum(timing.phases.blocked, -1),
   dns |-> OrNum(timing.phases.dns, -1),
   connect |-> OrNum(timing.phases.connect, -1),
   ssl |-> OrNum(timing.phases.ssl, -1),
   send |-> OrNum(timing.phases.send, RoundShare(totalTime, 1)),
   wait |-> OrNum(timing.phases.wait, RoundShare(totalTime, 7)),
   receive |-> OrNum(timing.phases.receive, RoundShare(totalTime, 2))]

NonNeg(x) == IF x >= 0 THEN x ELSE 0

\* the total time as the plain sum of the phases that are not negative
TotalOf_PlainSum(timings) ==
  NonNeg(timings.blocked) + NonNeg(timings.dns) + NonNeg(timings.connect)
  + NonNeg(timings.ssl) + NonNeg(timings.send) + NonNeg(timings.wait)
  + NonNeg(timings.receive)

\* the total time of an entry
TotalOf(timings) ==
  Max(1, NonNeg(timings.blocked) + NonNeg(timings.dns) + NonNeg(timings.connect)
         + NonNeg(timings.ssl) + NonNeg(timings.send) + NonNeg(timings.wait)
         + NonNeg(timings.receive))

\* as ResponseOf, reading the Location header under its lower-case name only
ResponseOf_LowerCaseOnly(responseData) ==
  LET headers == responseData.headers
      body == responseData.body
      contentType == Or(Or(Get(headers, "content-type"), Get(headers, "Content-Type")), S(""))
      bodySize == IF Truthy(body) THEN ByteLength(StringOf(body)) ELSE 0
      location == Get(headers, "location")
      response == With(formatHeaders(headers), LAMBDA harHeaders :
                    [status |-> responseData.statusCode,
                     statusText |-> IF Truthy(responseData.statusText)
                                      THEN StringOf(responseData.statusText) ELSE "",
                     httpVersion |-> responseData.httpVersion,
                     cookies |-> extractSetCookies(headers),
                     headers |-> harHeaders,
                     content |-> [size |-> bodySize,
                                  compression |-> 0,
                                  mimeType |-> Or(contentType, S("text/plain")),
                                  text |-> IF Truthy(body) THEN StringOf(body) ELSE ""],
                     redirectURL |-> Or(location, S("")),
                     headersSize |-> calculateHeadersSize(harHeaders),
                     bodySize |-> bodySize])
  IN [response EXCEPT !.redirectURL =
        IF responseData.statusCode >= 300 /\ responseData.statusCode < 400 /\ Truthy(location)
          THEN location ELSE @]

\* the response sub-record built by addResponse
ResponseOf(responseData) ==
  LET headers == responseData.headers
      body == responseData.body
      contentType == Or(Or(Get(headers, "content-type"), Get(headers, "Content-Type")), S(""))
      bodySize == IF Truthy(body) THEN ByteLength(StringOf(body)) ELSE 0
      location == Or(Get(headers, "location"), Get(headers, "Location"))
      response == With(formatHeaders(headers), LAMBDA harHeaders :
                    [status |-> responseData.statusCode,
                     statusText |-> IF Truthy(responseData.statusText)
                                      THEN StringOf(responseData.statusText) ELSE "",
                     httpVersion |-> responseData.httpVersion,
                     cookies |-> extractSetCookies(headers),
                     headers |-> harHeaders,
                     content |-> [size |-> bodySize,
                                  compression |-> 0,
                                  mimeType |-> Or(contentType, S("text/plain")),
                                  text |-> IF Truthy(body) THEN StringOf(body) ELSE ""],
                     redirectURL |-> Or(location, S("")),
                     headersSize |-> calculateHeadersSize(harHeaders),
                     bodySize |-> bodySize])
  IN [response EXCEPT !.redirectURL =
        IF responseData.statusCode >= 300 /\ responseData.statusCode < 400 /\ Truthy(location)
          THEN location ELSE @]

\* addResponse raises where it reads the headers of a known request
addResponseThrows(responseData) ==
  \/ ~CanIndex(responseData.headers)
  \/ extractSetCookiesThrows(responseData.headers)

\* addResponse writing the file when only the status has been set
addResponse_HalfSaved(f, fs, responseData, t) ==
  IF responseData.requestId \notin DOMAIN f.requestMap
    THEN [f |-> f, fs |-> fs, ret |-> Null, threw |-> FALSE]
    ELSE LET i == f.requestMap[responseData.requestId]
             half == [f EXCEPT !.harData.log.entries[i].response.status =
                                  responseData.statusCode]
             full == [f EXCEPT !.harData.log.entries[i].response = ResponseOf(responseData),
                               !.requestTimings = MapDelete(@, responseData.requestId)]
         IN [f |-> full, fs |-> saveHar(half, fs), ret |-> N(i), threw |-> FALSE]

\* addResponse opening an entry for an identifier it does not know
addResponse_OpenOnMiss(f, fs, responseData, t) ==
  LET opened == [f EXCEPT !.requestMap = MapSet(@, responseData.requestId,
                                                Len(f.harData.log.entries) + 1),
                          !.harData.log.entries =
                             Append(@, [response |-> ResponseOf(responseData)])]
  IN [f |-> opened, fs |-> saveHar(opened, fs),
      ret |-> N(Len(f.harData.log.entries) + 1), threw |-> FALSE]

\* HarFormatter.addResponse: the formatter, the file system and the value
\* returned (null, or the entry, named by its position)
addResponse(f, fs, responseData, t) ==
  LET requestId == responseData.requestId
  IN IF requestId \notin DOMAIN f.requestMap
       THEN [f |-> f, fs |-> fs, ret |-> Null, threw |-> FALSE]
     ELSE IF ~CanIndex(responseData.headers)
       THEN [f |-> f, fs |-> fs, ret |-> Undefined, threw |-> TRUE]
     ELSE
       LET entryIndex == f.requestMap[requestId]
           timed == IF requestId \in DOMAIN f.requestTimings
                      THEN With(TimingsOf(f.requestTimings[requestId],
                                          t - f.requestTimings[requestId].startTime),
                                LAMBDA timings :
                                  [f EXCEPT !.harData.log.entries[entryIndex].timings = timings,
                                            !.harData.log.entries[entryIndex].time =
                                               TotalOf(timings)])
                      ELSE f
       IN With(timed, LAMBDA f1 :
            IF extractSetCookiesThrows(responseData.headers)
              THEN [f |-> f1, fs |-> fs, ret |-> Undefined, threw |-> TRUE]
              ELSE With([f1 EXCEPT !.harData.log.entries[entryIndex].response =
                                      ResponseOf(responseData),
                                   !.requestTimings = MapDelete(@, requestId)],
                        LAMBDA f2 : [f |-> f2, fs |-> saveHar(f2, fs), ret |-> N(entryIndex),
                                     threw |-> FALSE]))

\* HarFormatter.initializeLog for the handle the new timer gets
initializeLog(f, logsDir, t, handle) ==
  [f EXCEPT !.logFile = S(logsDir \o "/http-archive-" \o ToString(t) \o ".har"),
            !.harData.log.browser = S("Node.js"),
            !.autoSaveInterval = handle]

\* HarFormatter.cleanup: clearInterval, then the final saveHar; the formatter,
\* the file system and the armed timers after the call
cleanup(f, fs, armed) ==
  LET f1 == [f EXCEPT !.autoSaveInterval = 0]
  IN [f |-> f1, fs |-> saveHar(f1, fs), timers |-> armed \ {f.autoSaveInterval}]

(***************************************************************************)
(* har-logger: the exported functions, as functions of the state they      *)
(* read and write.                                                         *)
(***************************************************************************)
Digits36 == "0123456789abcdefghijklmnopqrstuvwxyz"

RECURSIVE Base36(_)
\* Number.prototype.toString(36)
Base36(n) ==
  IF n < 36 THEN CharAt(Digits36, n + 1)
  ELSE Base36(n \div 36) \o CharAt(Digits36, (n % 36) + 1)

\* har-logger createRequestId, for the digits Math.random() yields
createRequestId(t, random) == "req-" \o Base36(t) \o "-" \o random

\* har-logger getRequestKey
getRequestKey(method, host, path) == method \o ":" \o host \o ":" \o path

\* har-logger getResponseKey
getResponseKey(requestId, statusCode) == requestId \o ":" \o ToString(statusCode)

\* the url logRequest builds
FullUrl(host, path, isHttps) ==
  (IF isHttps THEN "https" ELSE "http") \o "://" \o host \o path

\* logRequest that does not remember the key
logRequest_Forget(f, logged, method, host, path, headers, requestId, isHttps, interceptorType, t) ==
  [f |-> addRequest(f, [requestId |-> requestId,
                        method |-> method,
                        url |-> FullUrl(host, path, isHttps),
                        headers |-> headers,
                        body |-> Undefined,
                        httpVersion |-> "HTTP/1.1",
                        isHttps |-> isHttps,
                        interceptorType |-> interceptorType], t),
   logged |-> logged,
   ret |-> getRequestKey(method, host, path) \in logged]

\* har-logger logRequest: the formatter, loggedRequests and the value returned
logRequest(f, logged, method, host, path, headers, requestId, isHttps, interceptorType, t) ==
  LET requestKey == getRequestKey(method, host, path)
  IN [f |-> addRequest(f, [requestId |-> requestId,
                           method |-> method,
                           url |-> FullUrl(host, path, isHttps),
                           headers |-> headers,
                           body |-> Undefined,
                           httpVersion |-> "HTTP/1.1",
                           isHttps |-> isHttps,
                           interceptorType |-> interceptorType], t),
      logged |-> logged \union {requestKey},
      ret |-> requestKey \in logged]

\* the entry a body logger writes to: the one of requestId, or the latest
\* entry when no requestId is given; 0 when there is none
BodyEntryIndex(f, requestId) ==
  IF requestId # "" /\ requestId \in DOMAIN f.requestMap THEN f.requestMap[requestId]
  ELSE IF requestId = "" THEN Len(f.harData.log.entries)
  ELSE 0

\* har-logger logRequestBody: the formatter and the file system after the call
logRequestBody(f, fs, body, contentType, requestId, t) ==
  IF body = "" THEN [f |-> f, fs |-> fs]
  ELSE
    LET f1 == IF requestId = ""
                THEN addSystemLog(f, "Warning: logRequestBody called without requestId, "
                                     \o "body may be incorrectly associated", t)
                ELSE f
        i == BodyEntryIndex(f1, requestId)
    IN IF i > 0
         THEN LET f2 == [f1 EXCEPT !.harData.log.entries[i].request =
                           [k \in (DOMAIN @) \union {"postData"} |->
                              IF k = "postData"
                                THEN [mimeType |-> Or(contentType, S("text/plain")),
                                      text |-> body]
                              ELSE IF k = "bodySize" THEN ByteLength(body)
                              ELSE @[k]]]
              IN [f |-> f2, fs |-> saveHar(f2, fs)]
       ELSE IF requestId # ""
         THEN [f |-> addSystemLog(f1, "Could not find entry for request ID " \o requestId
                                      \o " to log request body", t),
               fs |-> fs]
       ELSE [f |-> f1, fs |-> fs]

\* logResponse that does not remember the pair
logResponse_Forget(f, fs, logged, requestId, statusCode, statusMessage, headers, t) ==
  With(addResponse(f, fs, [requestId |-> requestId,
                           statusCode |-> statusCode,
                           statusText |-> S(statusMessage),
                           headers |-> headers,
                           body |-> Undefined,
                           httpVersion |-> "HTTP/1.1"], t),
       LAMBDA r : [f |-> r.f, fs |-> r.fs, logged |-> logged, ret |-> FALSE,
                   threw |-> r.threw, added |-> r.ret])

\* har-logger logResponse: the formatter, the file system, loggedResponses,
\* the value returned and the value addResponse gave it
logResponse(f, fs, logged, requestId, statusCode, statusMessage, headers, t) ==
  LET responseKey == getResponseKey(requestId, statusCode)
  IN IF responseKey \in logged
       THEN [f |-> f, fs |-> fs, logged |-> logged, ret |-> TRUE, threw |-> FALSE,
             added |-> Undefined]
       ELSE With(addResponse(f, fs, [requestId |-> requestId,
                                     statusCode |-> statusCode,
                                     statusText |-> S(statusMessage),
                                     headers |-> headers,
                                     body |-> Undefined,
                                     httpVersion |-> "HTTP/1.1"], t),
                 LAMBDA r : [f |-> r.f, fs |-> r.fs, logged |-> logged \union {responseKey},
                             ret |-> FALSE, threw |-> r.threw, added |-> r.ret])

\* logResponseBody building the response anew around the body
logResponseBody_Rebuild(f, fs, body, contentType, requestId, t) ==
  IF body = "" \/ BodyEntryIndex(f, requestId) = 0 THEN [f |-> f, fs |-> fs]
  ELSE LET i == BodyEntryIndex(f, requestId)
           f2 == [f EXCEPT !.harData.log.entries[i].response =
                             [PlaceholderResponse EXCEPT
                                !.content = [size |-> ByteLength(body),
                                             mimeType |-> Or(contentType, S("text/plain")),
                                             text |-> body],
                                !.bodySize = ByteLength(body)]]
       IN [f |-> f2, fs |-> saveHar(f2, fs)]

\* har-logger logResponseBody: the formatter and the file system after the call
logResponseBody(f, fs, body, contentType, requestId, t) ==
  IF body = "" THEN [f |-> f, fs |-> fs]
  ELSE
    LET f1 == IF requestId = ""
                THEN addSystemLog(f, "Warning: logResponseBody called without requestId, "
                                     \o "body may be incorrectly associated", t)
                ELSE f
        i == BodyEntryIndex(f1, requestId)
    IN IF i > 0
         THEN LET f2 == [f1 EXCEPT !.harData.log.entries[i].response.content =
                                      [size |-> ByteLength(body),
                                       mimeType |-> Or(contentType, S("text/plain")),
                                       text |-> body],
                                   !.harData.log.entries[i].response.bodySize =
                                      ByteLength(body)]
              IN [f |-> f2, fs |-> saveHar(f2, fs)]
       ELSE IF requestId # ""
         THEN [f |-> addSystemLog(f1, "Could not find valid entry for request ID "
                                      \o requestId \o " to log response body", t),
               fs |-> fs]
       ELSE [f |-> f1, fs |-> fs]

\* har-logger getRequestInfo
getRequestInfo(methods, urls, requestId) ==
  [method |-> IF requestId \in DOMAIN methods /\ methods[requestId] # ""
                THEN methods[requestId] ELSE "unknown method",
   url |-> IF requestId \in DOMAIN urls /\ urls[requestId] # ""
             THEN urls[requestId] ELSE "unknown URL"]

\* Set.prototype.add on the insertion-ordered pending set
SetAdd(seq, x) == IF \E i \in 1..Len(seq) : seq[i] = x THEN seq ELSE Append(seq, x)

\* Set.prototype.delete
SetDelete(seq, x) == SelectSeq(seq, LAMBDA y : y # x)

\* untrackRequest leaving the set as it is
untrackRequest_Keep(pending, requestId) == pending

\* har-logger untrackRequest
untrackRequest(pending, requestId) == SetDelete(pending, requestId)

RECURSIVE OrphanNotes(_, _, _, _, _)
\* the loop of the exit handler over the pending set
OrphanNotes(f, pending, methods, urls, t) ==
  IF Len(pending) = 0 THEN f
  ELSE LET info == getRequestInfo(methods, urls, pending[1])
       IN OrphanNotes(addSystemLog(f, "- Orphaned request: " \o info.method \o " " \o info.url
                                      \o " (ID: " \o pending[1] \o ")", t),
                      Tail(pending), methods, urls, t)

\* the exit handler doing its cleanup before it writes its notes
exitHandlerFunction_SaveFirst(f, fs, armed, pending, methods, urls, t) ==
  LET done == cleanup(f, fs, armed)
  IN [done EXCEPT !.f = IF Len(pending) > 0
                          THEN OrphanNotes(addSystemLog(done.f, "WARNING: Found "
                                                        \o ToString(Len(pending))
                                                        \o " requests without matching responses",
                                                        t),
                                           pending, methods, urls, t)
                          ELSE done.f]

\* har-logger exitHandlerFunction: the warning and the orphan notes, then
\* HarFormatter.cleanup; the formatter, the file system and the armed timers
\* after the call
exitHandlerFunction(f, fs, armed, pending, methods, urls, t) ==
  LET f1 == IF Len(pending) > 0
              THEN OrphanNotes(addSystemLog(f, "WARNING: Found " \o ToString(Len(pending))
                                               \o " requests without matching responses", t),
                               pending, methods, urls, t)
              ELSE f
  IN cleanup(f1, fs, armed)

\* har-logger trackRequest for a request with these headers: the maps, the
\* pending set and the formatter after the call
trackRequest(f, pending, urls, methods, axiosIds, headers, requestId, url, method, t) ==
  LET trackingId == Or(Get(headers, "X-Request-Tracking-ID"),
                       Get(headers, "x-request-tracking-id"))
  IN [urls |-> MapSet(urls, requestId, url),
      methods |-> MapSet(methods, requestId, method),
      pending |-> SetAdd(pending, requestId),
      axiosIds |-> IF Truthy(trackingId)
                     THEN MapSet(axiosIds, StringOf(trackingId), requestId)
                     ELSE axiosIds,
      f |-> IF Truthy(trackingId)
              THEN addSystemLog(f, "Mapped Axios tracking ID " \o StringOf(trackingId)
                                   \o " to request ID " \o requestId, t)
              ELSE f]

(***************************************************************************)
(* Response bodies.  A buffer is a text under the codings applied to it,   *)
(* the outermost last; "gzip?" and "zlib?" are a gzip and a zlib stream    *)
(* that start as they should and are corrupt further on.                   *)
(***************************************************************************)
Buffer(text, layers) == [text |-> text, layers |-> layers]

Outer(b) == IF Len(b.layers) = 0 THEN "" ELSE b.layers[Len(b.layers)]

Peel(b) == [b EXCEPT !.layers = SubSeq(@, 1, Len(@) - 1)]

\* zlib.gunzip, inflate (falling back to inflateRaw) or brotliDecompress succeeds
CanDecode(encoding, b) ==
  \/ encoding = "gzip" /\ Outer(b) = "gzip"
  \/ encoding = "deflate" /\ Outer(b) \in {"deflate", "raw"}
  \/ encoding = "br" /\ Outer(b) = "br"

\* buffer[0] === 0x1F && buffer[1] === 0x8B
HasGzipMagic(b) == Outer(b) \in {"gzip", "gzip?"}

\* buffer[0] === 0x78 && buffer[1] is 0x01, 0x9C or 0xDA
HasZlibHeader(b) == Outer(b) \in {"deflate", "zlib?"}

RECURSIVE BufferToString(_)
\* Buffer.prototype.toString: the text, or the bytes of a coded buffer read as text
BufferToString(b) ==
  IF Len(b.layers) = 0 THEN b.text ELSE Outer(b) \o "(" \o BufferToString(Peel(b)) \o ")"

RECURSIVE DecodeStages_Forward(_, _)
\* as DecodeStages, going through the declared codings first to last
DecodeStages_Forward(encodings, st) ==
  IF Len(encodings) = 0 THEN st
  ELSE IF encodings[1] \notin {"gzip", "deflate", "br"}
    THEN DecodeStages_Forward(Tail(encodings), st)
  ELSE IF CanDecode(encodings[1], st.result)
    THEN DecodeStages_Forward(Tail(encodings),
                              [st EXCEPT !.result = Peel(@), !.decompressed = TRUE])
  ELSE DecodeStages_Forward(Tail(encodings), [st EXCEPT !.notes =
         Append(@, "Decompression error (" \o encodings[1] \o "): incorrect header check")])

RECURSIVE DecodeStages_Abort(_, _)
\* as DecodeStages, leaving the loop at the first stage that fails
DecodeStages_Abort(encodings, st) ==
  IF Len(encodings) = 0 THEN st
  ELSE IF encodings[Len(encodings)] \notin {"gzip", "deflate", "br"}
    THEN DecodeStages_Abort(SubSeq(encodings, 1, Len(encodings) - 1), st)
  ELSE IF CanDecode(encodings[Len(encodings)], st.result)
    THEN DecodeStages_Abort(SubSeq(encodings, 1, Len(encodings) - 1),
                            [st EXCEPT !.result = Peel(@), !.decompressed = TRUE])
  ELSE [st EXCEPT !.notes =
         Append(@, "Decompression error (" \o encodings[Len(encodings)]
                   \o "): incorrect header check")]

RECURSIVE DecodeStages(_, _)
\* the loop of decompressResponseBody over the declared codings, last first
DecodeStages(encodings, st) ==
  IF Len(encodings) = 0 THEN st
  ELSE LET currentEncoding == encodings[Len(encodings)]
           rest == SubSeq(encodings, 1, Len(encodings) - 1)
       IN IF currentEncoding \notin {"gzip", "deflate", "br"} THEN DecodeStages(rest, st)
          ELSE IF CanDecode(currentEncoding, st.result)
            THEN DecodeStages(rest, [st EXCEPT !.result = Peel(@), !.decompressed = TRUE])
          ELSE DecodeStages(rest, [st EXCEPT !.notes =
                 Append(@, "Decompression error (" \o currentEncoding \o "): "
                           \o "incorrect header check")])

TrimAll(seq) == [i \in 1..Len(seq) |-> ToLowerCase(Trim(seq[i]))]

\* har-logger decompressResponseBody: the text it resolves to and the system
\* notes it leaves
decompressResponseBody(buffer, contentEncoding) ==
  LET declared == IF contentEncoding # ""
                    THEN DecodeStages(TrimAll(Split(contentEncoding, ",")),
                                      [result |-> buffer, decompressed |-> FALSE, notes |-> <<>>])
                    ELSE [result |-> buffer, decompressed |-> FALSE, notes |-> <<>>]
      detected ==
        IF declared.decompressed THEN declared
        ELSE IF HasGzipMagic(buffer)
          THEN IF CanDecode("gzip", buffer)
                 THEN [result |-> Peel(buffer), decompressed |-> TRUE,
                       notes |-> Append(declared.notes,
                            "Auto-detected gzip compression and decompressed successfully")]
                 ELSE declared
        ELSE IF HasZlibHeader(buffer)
          THEN IF CanDecode("deflate", buffer)
                 THEN [result |-> Peel(buffer), decompressed |-> TRUE,
                       notes |-> Append(declared.notes,
                            "Auto-detected zlib compression and decompressed successfully")]
                 ELSE declared
        ELSE declared
  IN IF buffer.text = "" /\ Len(buffer.layers) = 0 THEN [text |-> "", notes |-> <<>>]
     ELSE [text |-> BufferToString(detected.result), notes |-> detected.notes]

RECURSIVE addSystemLogs(_, _, _)
addSystemLogs(f, messages, t) ==
  IF Len(messages) = 0 THEN f
  ELSE addSystemLogs(addSystemLog(f, messages[1], t), Tail(messages), t)

\* chunked-decoder isChunkedResponse
isChunkedResponse(headers) ==
  /\ Truthy(headers)
  /\ Contains(ToLowerCase(StringOf(Or(Or(Get(headers, "transfer-encoding"),
                                         Get(headers, "Transfer-Encoding")), S("")))),
              "chunked")

(***************************************************************************)
(* chunked-decoder: decodeChunkedResponse.  Positions count from 0, as in  *)
(* the code.                                                               *)
(***************************************************************************)
NaN == [t |-> "nan"]

\* s.indexOf(sub, pos), -1 when absent
IndexOfFrom(s, sub, pos) ==
  IF IndexOf(SubSeq(s, pos + 1, Len(s)), sub) = 0 THEN -1
  ELSE pos + IndexOf(SubSeq(s, pos + 1, Len(s)), sub) - 1

\* s.substring(from, to), for 0 <= from <= to: both are clamped to the length
Substring(s, from, to) ==
  SubSeq(s, (IF from > Len(s) THEN Len(s) ELSE from) + 1, IF to > Len(s) THEN Len(s) ELSE to)

HexDigits == "0123456789abcdef"

IsHex(c) == c # "" /\ Contains(HexDigits, LowerChar(c))

RECURSIVE ParseHex(_, _, _)
\* the digits loop of parseInt(s, 16): the longest prefix of hex digits
ParseHex(s, acc, any) ==
  IF s = "" \/ ~IsHex(CharAt(s, 1)) THEN (IF any THEN N(acc) ELSE NaN)
  ELSE ParseHex(Tail(s), acc * 16 + IndexOf(HexDigits, LowerChar(CharAt(s, 1))) - 1, TRUE)

\* -x for a number, NaN for NaN
Negated(x) == IF x.t = "num" THEN N(0 - x.v) ELSE x

\* the digits of parseInt(s, 16) after the sign: an 0x prefix is passed over
HexNumber(s) ==
  IF StartsWith(s, "0x") \/ StartsWith(s, "0X") THEN ParseHex(SubSeq(s, 3, Len(s)), 0, FALSE)
  ELSE ParseHex(s, 0, FALSE)

\* parseInt(s, 16): leading white space, a sign, an 0x prefix, hex digits
ParseInt16(s) ==
  IF StartsWith(TrimLeft(s), "-") THEN Negated(HexNumber(Tail(TrimLeft(s))))
  ELSE IF StartsWith(TrimLeft(s), "+") THEN HexNumber(Tail(TrimLeft(s)))
  ELSE HexNumber(TrimLeft(s))

\* the size text of a chunk size line: what precedes ';', trimmed
ChunkSizeHex(chunkSizeLine) ==
  IF IndexOf(chunkSizeLine, ";") # 0
    THEN Trim(SubSeq(chunkSizeLine, 1, IndexOf(chunkSizeLine, ";") - 1))
    ELSE Trim(chunkSizeLine)

RECURSIVE BufferFrom(_)
\* Buffer.from(text), the UTF-8 bytes of a text, written as a text with one
\* character per byte.  Every character of the model is one byte, itself,
\* except "@", which stands for a character of two bytes (such as U+00E9),
\* written "^" (lead byte) and "~" (continuation byte).
BufferFrom(text) ==
  IF text = "" THEN ""
  ELSE (IF CharAt(text, 1) = "@" THEN "^~" ELSE CharAt(text, 1)) \o BufferFrom(Tail(text))

\* an index of Buffer.prototype.slice: a negative one counts from the end
SliceIndex(buf, i) ==
  IF i < 0 THEN Max(Len(buf) + i, 0) ELSE IF i > Len(buf) THEN Len(buf) ELSE i

\* buf.slice(start, end)
BufferSlice(buf, start, end) == SubSeq(buf, SliceIndex(buf, start) + 1, SliceIndex(buf, end))

RECURSIVE DecodeChunks(_, _, _)
\* the loop body from the chunk size on, pos being past the size line: the
\* terminating chunk ends the loop; with a size that is NaN no comparison
\* holds, slice(pos, NaN) is empty and pos becomes NaN, which ends the loop.
\* pos and chunkSize index the characters of responseText where the code
\* compares them with its length, and the bytes of responseBuffer where it
\* slices the data.
ChunkData(responseText, pos, chunkSize, result) ==
  IF chunkSize = N(0) THEN [result EXCEPT !.chunks = Append(@, chunkSize)]
  ELSE IF chunkSize = NaN THEN [result EXCEPT !.chunks = Append(@, chunkSize)]
  ELSE IF pos + chunkSize.v + 2 > Len(responseText)
    THEN [result EXCEPT !.error = "Invalid chunked encoding: incomplete chunk data"]
  ELSE DecodeChunks(responseText, pos + chunkSize.v + 2,
                    [result EXCEPT !.body = @ \o BufferSlice(BufferFrom(responseText), pos,
                                                             pos + chunkSize.v),
                                   !.chunks = Append(@, chunkSize)])

\* the loop body up to the chunk size, crlfPos being the end of the size line
ChunkSizeLine(responseText, pos, crlfPos, result) ==
  IF crlfPos = -1
    THEN [result EXCEPT !.error = "Invalid chunked encoding: missing chunk size delimiter"]
    ELSE ChunkData(responseText, crlfPos + 2,
                   ParseInt16(ChunkSizeHex(Substring(responseText, pos, crlfPos))), result)

\* while (!endOfMessage && pos < responseText.length), for a text on which
\* the loop ends
DecodeChunks(responseText, pos, result) ==
  IF pos >= Len(responseText) THEN result
  ELSE ChunkSizeLine(responseText, pos, IndexOfFrom(responseText, "\r\n", pos), result)

\* the pass from the chunk size on; crlfPos is the end of the size line
PassAfterSize(responseText, crlfPos, chunkSize) ==
  IF chunkSize = N(0) THEN [next |-> "break", pos |-> N(crlfPos + 2)]
  ELSE IF chunkSize = NaN THEN [next |-> "loop", pos |-> NaN]
  ELSE IF crlfPos + 2 + chunkSize.v + 2 > Len(responseText)
    THEN [next |-> "throw", pos |-> N(crlfPos + 2)]
  ELSE [next |-> "loop", pos |-> N(crlfPos + 2 + chunkSize.v + 2)]

\* one pass of the loop from the position pos < responseText.length: where
\* the next pass starts (a number, or NaN after a size that is NaN), or how
\* the loop ends.  indexOf and substring take a negative position as 0.
LoopPass(responseText, pos) ==
  CHOOSE pass \in UNION {
    IF crlfPos = -1 THEN {[next |-> "throw", pos |-> N(pos)]}
    ELSE {PassAfterSize(responseText, crlfPos, chunkSize) :
            chunkSize \in {ParseInt16(ChunkSizeHex(
                             Substring(responseText, Max(pos, 0), crlfPos)))}} :
    crlfPos \in {IndexOfFrom(responseText, "\r\n", Max(pos, 0))}} : TRUE

\* chunked-decoder decodeChunkedResponse of a text: the bytes of the body,
\* the sizes of the chunks recorded, and the message of the error raised, if any (the
\* trailers are left out)
decodeChunkedResponse(responseText) ==
  DecodeChunks(responseText, 0, [body |-> "", chunks |-> <<>>, error |-> ""])

(***************************************************************************)
(* stream-decoder: processEvent.  A message is its content, a map from the  *)
(* property names of the array ("0", "1", ..) to blocks, its other          *)
(* properties (props), a map from names to values, and its errors list,     *)
(* empty when the property is absent.  A block is a map from its property   *)
(* names to values.                                                         *)
(***************************************************************************)
\* obj.name; undefined for what is not an object with that property
Prop(map, name) == IF name \in DOMAIN map THEN map[name] ELSE Undefined

\* the own properties { ...x } copies; the values spread here are objects,
\* null or undefined
Spread(x) == IF x.t = "obj" THEN x.v ELSE <<>>

\* the index of the pair of a name in a list of pairs, 0 when absent
PairIndex(pairs, name) ==
  IF \E i \in 1..Len(pairs) : pairs[i][1] = name
    THEN CHOOSE i \in 1..Len(pairs) : pairs[i][1] = name
    ELSE 0

RECURSIVE Assign(_, _)
\* the properties of extra assigned onto pairs: a known name keeps its
\* place and takes the new value, a new name goes to the end
Assign(pairs, extra) ==
  IF Len(extra) = 0 THEN pairs
  ELSE IF PairIndex(pairs, extra[1][1]) # 0
    THEN Assign([pairs EXCEPT ![PairIndex(pairs, extra[1][1])] = extra[1]], Tail(extra))
  ELSE Assign(Append(pairs, extra[1]), Tail(extra))

\* { ...a, ...b }
Merge(a, b) == Obj(Assign(Spread(a), Spread(b)))

\* a + b where a is a string
Plus(a, b) == S(a.v \o StringOf(b))

\* the catch block of processEvent
EventError(message, eventType, eventData, error) ==
  [message EXCEPT !.errors = Append(@, [event_type |-> eventType, error |-> error,
                                        data |-> eventData])]

\* case 'message_start'
MessageStart(eventData, message) ==
  IF ~Truthy(Get(eventData, "message")) THEN message
  ELSE With(Get(eventData, "message"), LAMBDA m :
         [message EXCEPT !.props =
            [k \in {"id", "role", "model", "usage", "stop_reason", "stop_sequence"}
               |-> Get(m, k)] @@ @])

\* eventData.content_block?.type || 'unknown'
BlockTypeOf(eventData) == Or(Get(Get(eventData, "content_block"), "type"), S("unknown"))

\* case 'content_block_start'
ContentBlockStart(eventData, message) ==
  [message EXCEPT !.content =
     MapSet(@, StringOf(Get(eventData, "index")),
            [type |-> BlockTypeOf(eventData),
             text |-> IF BlockTypeOf(eventData) = S("text") THEN S("") ELSE Null,
             tool_use |-> IF BlockTypeOf(eventData) = S("tool_use") THEN Obj(<<>>) ELSE Null,
             thinking |-> IF BlockTypeOf(eventData) = S("thinking") THEN S("") ELSE Null])]

\* as BlockFor, creating the block with the type of the usual delta
BlockFor_Text(content, blockIndex) ==
  IF blockIndex \in DOMAIN content THEN content[blockIndex]
  ELSE [type |-> S("text"), text |-> S("")]

\* the block of a delta, created as an unknown block when there is none
BlockFor(content, blockIndex) ==
  IF blockIndex \in DOMAIN content THEN content[blockIndex]
  ELSE [type |-> S("unknown"), text |-> S("")]

\* as ApplyDelta, putting the text of a text delta in front
ApplyDelta_Prepend(block, delta) ==
  IF Get(delta, "type") = S("text_delta")
    THEN MapSet(block, "text", Plus(Or(Get(delta, "text"), S("")),
                                    Or(Prop(block, "text"), S(""))))
  ELSE block

\* the block after the delta
ApplyDelta(block, delta) ==
  IF Get(delta, "type") = S("text_delta")
    THEN MapSet(block, "text", Plus(Or(Prop(block, "text"), S("")),
                                    Or(Get(delta, "text"), S(""))))
  ELSE IF Get(delta, "type") = S("tool_use_delta")
    THEN MapSet(block, "tool_use", Merge(Or(Prop(block, "tool_use"), Obj(<<>>)),
                                         Or(Get(delta, "tool_use"), Obj(<<>>))))
  ELSE IF Get(delta, "type") = S("thinking_delta")
    THEN MapSet(block, "thinking", Plus(Or(Prop(block, "thinking"), S("")),
                                        Or(Get(delta, "thinking"), S(""))))
  ELSE block

\* case 'content_block_delta': reading delta.type of a missing delta
\* raises after the block has been created
ContentBlockDelta(eventType, eventData, message) ==
  With(StringOf(Get(eventData, "index")), LAMBDA blockIndex :
    IF ~CanIndex(Get(eventData, "delta"))
      THEN EventError([message EXCEPT !.content =
                         MapSet(@, blockIndex, BlockFor(message.content, blockIndex))],
                      eventType, eventData, "Cannot read properties of undefined")
    ELSE [message EXCEPT !.content =
            MapSet(@, blockIndex,
                   ApplyDelta(BlockFor(message.content, blockIndex), Get(eventData, "delta")))])

\* case 'message_delta'
MessageDelta(eventData, message) ==
  IF ~Truthy(Get(eventData, "delta")) THEN message
  ELSE With(Get(eventData, "delta"), LAMBDA delta :
         [message EXCEPT !.props =
            [k \in {"stop_reason", "stop_sequence", "usage"} |->
               IF k = "usage"
                 THEN Merge(Or(Prop(message.props, "usage"), Obj(<<>>)),
                            Or(Get(delta, "usage"), Obj(<<>>)))
                 ELSE Or(Get(delta, k), Prop(message.props, k))] @@ @])

\* as processEvent, with a default case that records an event of an
\* unrecognized type as an error
processEvent_Default(eventType, eventData, message) ==
  IF eventType = "error" THEN [message EXCEPT !.props = MapSet(@, "error", eventData)]
  ELSE IF eventType = "ping" THEN message
  ELSE IF eventType \notin {"message_start", "content_block_start", "content_block_delta",
                            "message_delta"}
    THEN EventError(message, eventType, eventData, "Unknown event type")
  ELSE IF ~CanIndex(eventData)
    THEN EventError(message, eventType, eventData, "Cannot read properties of null")
  ELSE IF eventType = "message_start" THEN MessageStart(eventData, message)
  ELSE IF eventType = "content_block_start" THEN ContentBlockStart(eventData, message)
  ELSE IF eventType = "content_block_delta"
    THEN ContentBlockDelta(eventType, eventData, message)
  ELSE MessageDelta(eventData, message)

\* stream-decoder processEvent: the message after the event
processEvent(eventType, eventData, message) ==
  IF eventType = "error" THEN [message EXCEPT !.props = MapSet(@, "error", eventData)]
  ELSE IF eventType \notin {"message_start", "content_block_start", "content_block_delta",
                            "message_delta"}
    THEN message
  ELSE IF ~CanIndex(eventData)
    THEN EventError(message, eventType, eventData, "Cannot read properties of null")
  ELSE IF eventType = "message_start" THEN MessageStart(eventData, message)
  ELSE IF eventType = "content_block_start" THEN ContentBlockStart(eventData, message)
  ELSE IF eventType = "content_block_delta"
    THEN ContentBlockDelta(eventType, eventData, message)
  ELSE MessageDelta(eventData, message)

(***************************************************************************)
(* Inputs of the model.                                                    *)
(***************************************************************************)
\* what Math.random().toString(36).substr(2, 5) may yield
Randoms == {"k3x9q"}

RequestIds == {createRequestId(t, r) : t \in 0..MaxTime, r \in Randoms}

\* the calls made on http.request, https.request and axios: an options
\* object given to https.request and a url string given to http.request, and
\* the body written
RequestInputs ==
  { [url |-> "", method |-> "GET", host |-> "h", path |-> "/a",
     headers |-> Obj(<<>>), isHttps |-> TRUE, body |-> ""],
    [url |-> "http://h/b?q=1", method |-> "POST", host |-> "", path |-> "",
     headers |-> Obj(<< <<"content-type", S("text/plain")>>, <<"cookie", S("s=1; t=2")>> >>),
     isHttps |-> FALSE, body |-> "a=1"] }

\* the responses a server gives
ResponseInputs ==
  { [statusCode |-> 200, statusMessage |-> "OK",
     headers |-> Obj(<< <<"content-type", S("text/html")>>,
                        <<"content-encoding", S("gzip")>> >>),
     body |-> Buffer("<p>", <<"gzip">>)],
    [statusCode |-> 302, statusMessage |-> "Found",
     headers |-> Obj(<< <<"location", S("/new")>>,
                        <<"set-cookie", A(<<S("sid=1; Path=/; HttpOnly")>>)>> >>),
     body |-> Buffer("", <<>>)] }

\* responses that are not what they declare: a gzip body that is corrupt, the
\* same without a content-encoding header, a chunked response whose body
\* breaks off inside a chunk, and headers with a set-cookie that is a number
OddResponses ==
  { [statusCode |-> 200, statusMessage |-> "OK",
     headers |-> Obj(<< <<"content-encoding", S("gzip")>> >>),
     body |-> Buffer("<p>", <<"gzip?">>)],
    [statusCode |-> 200, statusMessage |-> "OK",
     headers |-> Obj(<<>>),
     body |-> Buffer("<p>", <<"gzip?">>)],
    [statusCode |-> 200, statusMessage |-> "OK",
     headers |-> Obj(<< <<"transfer-encoding", S("chunked")>> >>),
     body |-> Buffer("5\r\nHel", <<>>)],
    [statusCode |-> 200, statusMessage |-> "OK",
     headers |-> Obj(<< <<"set-cookie", N(5)>> >>),
     body |-> Buffer("<p>", <<>>)] }

(***************************************************************************)
(* request-wrapper: normalizeRequestParams                                 *)
(***************************************************************************)
\* new URL(url) for an absolute url without a port: host and pathname + search
ParseUrl(url) ==
  LET rest == After(url, "://")
      host == Before(Before(Before(rest, "/"), "?"), "#")
  IN [host |-> host, path |-> Before(SubSeq(rest, Len(host) + 1, Len(rest)), "#")]

\* the host, path and url of a call given a url string or an options object;
\* nothing sets options._isHttps
normalizeRequestParams(input) ==
  IF input.url # ""
    THEN [url |-> input.url, method |-> input.method, host |-> ParseUrl(input.url).host,
          path |-> ParseUrl(input.url).path, headers |-> input.headers]
    ELSE [url |-> "http://" \o input.host \o input.path, method |-> input.method,
          host |-> input.host, path |-> input.path, headers |-> input.headers]

\* the headers of a request as ClientRequest.getHeaders() reports them for a
\* call that gave none
DefaultHeaders(host) == Obj(<< <<"host", S(host)>> >>)

\* the headers wrappedRequest logs
LoggedHeaders(params) ==
  IF params.method \in {"POST", "PUT"} \/ Len(params.headers.v) > 0
    THEN params.headers
    ELSE DefaultHeaders(params.host)

entries == formatter.harData.log.entries

(***************************************************************************)
(* Initial state: the modules are loaded, har-logger initializeLogging()   *)
(* has run (initializeLog arms the timer and saves, then the note is       *)
(* added) and registerExitHandler() has installed the beforeExit listener. *)
(***************************************************************************)
LogsDir == "http-logs"

InitialFormatter == initializeLog(NewHarFormatter(0), LogsDir, 0, 1)

\* the modules as loading leaves them
Loaded ==
  /\ now = 0
  /\ formatter = addSystemLog(InitialFormatter, "HTTP traffic logging initialized", 0)
  /\ files = saveHar(InitialFormatter, EmptyMap)
  /\ timers = {1}
  /\ loggedRequests = {}
  /\ loggedResponses = {}
  /\ pendingRequestIds = <<>>
  /\ requestUrlMap = EmptyMap
  /\ requestMethodMap = EmptyMap
  /\ axiosRequestIdMap = EmptyMap
  /\ exitHandlerRegistered = TRUE
  /\ beforeExit = 1
  /\ exited = FALSE
  /\ reqs = <<>>

Init ==
  /\ Loaded
  /\ last = [op |-> "load"]

\* the clock advances
Tick ==
  /\ ~exited
  /\ now < MaxTime
  /\ now' = now + 1
  /\ UNCHANGED <<formatter, files, timers, loggerVars, processVars, reqs>>
  /\ last' = [op |-> "tick"]

\* the callback of the setInterval armed by initializeLog
AutoSave ==
  /\ ~exited
  /\ \E h \in timers :
       /\ files' = saveHar(formatter, files)
       /\ last' = [op |-> "saveHar"]
  /\ UNCHANGED <<now, formatter, timers, loggerVars, processVars, reqs>>

\* the beforeExit listener runs exitHandlerFunction and the process ends
ExitHandler ==
  /\ ~exited
  /\ exitHandlerRegistered
  /\ \E done \in {exitHandlerFunction(formatter, files, timers, pendingRequestIds,
                                        requestMethodMap, requestUrlMap, now)} :
       /\ formatter' = done.f
       /\ files' = done.fs
       /\ timers' = done.timers
  /\ exited' = TRUE
  /\ last' = [op |-> "exitHandler"]
  /\ UNCHANGED <<now, loggerVars, exitHandlerRegistered, beforeExit, reqs>>

(***************************************************************************)
(* request-wrapper: createRequestWrapper.                                  *)
(***************************************************************************)
\* json-formatter formatContent, for content that is not JSON
formatContent(content, contentType) == content

\* a request as its wrapper leaves it: the ClientRequest of wrappedRequest, or
\* the config of the axios interceptor
NewReq(kind, requestId, input) ==
  [kind |-> kind, requestId |-> requestId, input |-> input, chunks |-> "",
   listeners |-> 0, res |-> Null, collecting |-> FALSE, stage |-> "open"]

\* wrappedRequest: createRequestId, normalizeRequestParams, logRequest,
\* trackRequest
WrappedRequest ==
  /\ ~exited
  /\ Len(entries) < MaxEntries
  /\ \E input \in RequestInputs, random \in Randoms :
     \E requestId \in {createRequestId(now, random)}, p \in {normalizeRequestParams(input)} :
     \E lr \in {logRequest(formatter, loggedRequests, p.method, p.host, p.path,
                           LoggedHeaders(p), requestId, input.isHttps, "http", now)} :
     \E tr \in {trackRequest(lr.f, pendingRequestIds, requestUrlMap, requestMethodMap,
                             axiosRequestIdMap, LoggedHeaders(p), requestId, p.url,
                             p.method, now)} :
          /\ loggedRequests' = lr.logged
          /\ requestUrlMap' = tr.urls
          /\ requestMethodMap' = tr.methods
          /\ pendingRequestIds' = tr.pending
          /\ axiosRequestIdMap' = tr.axiosIds
          /\ formatter' = tr.f
          /\ reqs' = Append(reqs, NewReq("http", requestId, input))
          /\ last' = [op |-> "logRequest", id |-> requestId, ret |-> lr.ret]
  /\ UNCHANGED <<now, files, timers, loggedResponses, processVars>>

\* req.end(chunk): the request body is logged and a response listener and an
\* error listener are registered; a second end() carries no chunk
ReqEnd ==
  /\ ~exited
  /\ \E r \in 1..Len(reqs) :
       /\ reqs[r].kind = "http"
       /\ reqs[r].stage = "open"
       /\ reqs[r].listeners < MaxEnds
       /\ \E headers \in {reqs[r].input.headers},
             chunks \in {IF reqs[r].listeners = 0 THEN reqs[r].input.body
                         ELSE reqs[r].chunks} :
          \E contentType \in {Or(Or(Get(headers, "content-type"),
                                    Get(headers, "Content-Type")), S(""))} :
          \E logged \in {logRequestBody(formatter, files, formatContent(chunks, contentType),
                                        contentType, reqs[r].requestId, now)} :
             /\ formatter' = logged.f
             /\ files' = logged.fs
             /\ reqs' = [reqs EXCEPT ![r].chunks = chunks, ![r].listeners = @ + 1]
             /\ last' = [op |-> "logRequestBody", id |-> reqs[r].requestId]
  /\ UNCHANGED <<now, timers, loggerVars, processVars>>

RECURSIVE RunListeners(_, _, _, _, _)
\* the response listeners of one request, run in turn on its response:
\* untrackRequest, getRequestInfo, logResponse; a listener that is not told
\* "duplicate" goes on to collect the body.  The listeners are async
\* functions without a try block: a listener in which logResponse raises
\* stops there and its promise is rejected.
RunListeners(n, st, requestId, res, t) ==
  IF n = 0 THEN st
  ELSE With(logResponse(st.f, st.fs, st.logged, requestId, res.statusCode,
                        res.statusMessage, res.headers, t),
            LAMBDA lr :
              RunListeners(n - 1,
                           [f |-> lr.f, fs |-> lr.fs, logged |-> lr.logged,
                            pending |-> untrackRequest(st.pending, requestId),
                            collecting |-> st.collecting \/ (~lr.ret /\ ~lr.threw),
                            rets |-> Append(st.rets, lr.ret),
                            rejected |-> st.rejected \/ lr.threw],
                           requestId, res, t))

\* the 'response' event of a request, for one of the given responses
Respond(responses) ==
  /\ ~exited
  /\ \E r \in 1..Len(reqs), res \in responses :
       /\ reqs[r].kind = "http"
       /\ reqs[r].stage = "open"
       /\ reqs[r].listeners >= 1
       /\ \E done \in {RunListeners(reqs[r].listeners,
                                     [f |-> formatter, fs |-> files,
                                      logged |-> loggedResponses,
                                      pending |-> pendingRequestIds, collecting |-> FALSE,
                                      rets |-> <<>>, rejected |-> FALSE],
                                     reqs[r].requestId, res, now)} :
             /\ formatter' = done.f
             /\ files' = done.fs
             /\ loggedResponses' = done.logged
             /\ pendingRequestIds' = done.pending
             /\ reqs' = [reqs EXCEPT ![r].res = res, ![r].collecting = done.collecting,
                                     ![r].stage = "responded"]
             /\ last' = [op |-> "logResponse", id |-> reqs[r].requestId,
                         status |-> res.statusCode, ret |-> done.rets,
                         rejected |-> done.rejected]
  /\ UNCHANGED <<now, timers, loggedRequests, requestUrlMap, requestMethodMap,
                 axiosRequestIdMap, processVars>>

\* the 'response' event of a request
OnResponse == Respond(ResponseInputs)

\* the 'error' event of a request: every error listener logs it
OnError ==
  /\ ~exited
  /\ \E r \in 1..Len(reqs) :
       /\ reqs[r].kind = "http"
       /\ reqs[r].stage = "open"
       /\ reqs[r].listeners >= 1
       /\ formatter' = addSystemLogs(formatter,
                         [i \in 1..reqs[r].listeners |->
                            "Error for request " \o reqs[r].requestId \o ": socket hang up"],
                         now)
       /\ reqs' = [reqs EXCEPT ![r].stage = "failed"]
       /\ last' = [op |-> "log", id |-> reqs[r].requestId]
  /\ UNCHANGED <<now, files, timers, loggerVars, processVars>>

\* the 'end' event of a response: a collecting listener that got chunks starts
\* decompressResponseBody and waits for it
OnResEnd ==
  /\ ~exited
  /\ \E r \in 1..Len(reqs) :
       /\ reqs[r].kind = "http"
       /\ reqs[r].stage = "responded"
       /\ reqs' = [reqs EXCEPT ![r].stage =
                     IF reqs[r].collecting /\ BufferToString(reqs[r].res.body) # ""
                       THEN "decompressing" ELSE "done"]
       /\ last' = [op |-> "end", id |-> reqs[r].requestId]
  /\ UNCHANGED <<now, formatter, files, timers, loggerVars, processVars>>

\* the message the 'end' listener logs after logResponseBody for a chunked
\* response whose raw body decodeChunkedResponse rejects, "" otherwise
ChunkedNote(headers, responseBuffer) ==
  IF isChunkedResponse(headers) /\ decodeChunkedResponse(BufferToString(responseBuffer)).error # ""
    THEN "Error decoding chunked response: "
         \o decodeChunkedResponse(BufferToString(responseBuffer)).error
    ELSE ""

\* decompressResponseBody settles: its notes, then logResponseBody, then for
\* a chunked response decodeChunkedResponse inside its own try block
DecompressDone ==
  /\ ~exited
  /\ \E r \in 1..Len(reqs) :
       /\ reqs[r].stage = "decompressing"
       /\ \E headers \in {reqs[r].res.headers} :
          \E contentEncoding \in {StringOf(Or(Get(headers, "content-encoding"), S("")))},
             contentType \in {Or(Get(headers, "content-type"), S(""))} :
          \E d \in {decompressResponseBody(reqs[r].res.body, contentEncoding)} :
          \E logged \in {logResponseBody(addSystemLogs(formatter, d.notes, now), files,
                                         d.text, contentType, reqs[r].requestId, now)} :
             /\ formatter' = addSystemLog(logged.f, ChunkedNote(headers, reqs[r].res.body),
                                          now)
             /\ files' = logged.fs
             /\ last' = [op |-> "logResponseBody", id |-> reqs[r].requestId,
                         notes |-> d.notes, rejected |-> FALSE]
       /\ reqs' = [reqs EXCEPT ![r].stage = "done"]
  /\ UNCHANGED <<now, timers, loggerVars, processVars>>

(***************************************************************************)
(* axios-wrapper: the interceptors installed by instrumentAxios.           *)
(***************************************************************************)
\* the config axios is given for a call: its url is absolute
AxiosConfig(input) ==
  [method |-> input.method,
   url |-> IF input.url # "" THEN input.url
           ELSE (IF input.isHttps THEN "https://" ELSE "http://") \o input.host \o input.path,
   headers |-> input.headers,
   data |-> input.body]

\* the request interceptor: createRequestId, logRequest, logRequestBody;
\* the request is not tracked
AxiosRequest ==
  /\ ~exited
  /\ Len(entries) < MaxEntries
  /\ \E input \in RequestInputs, random \in Randoms :
     \E requestId \in {createRequestId(now, random)}, config \in {AxiosConfig(input)} :
     \E isHttps \in {StartsWith(config.url, "https:")},
        urlObj \in {ParseUrl(config.url)},
        contentType \in {Or(Or(Get(config.headers, "Content-Type"),
                               Get(config.headers, "content-type")), S(""))} :
     \E lr \in {logRequest(formatter, loggedRequests, config.method, urlObj.host,
                           urlObj.path, config.headers, requestId, isHttps, "axios", now)} :
     \E logged \in {logRequestBody(lr.f, files, config.data, contentType, requestId,
                                   now)} :
          /\ formatter' = logged.f
          /\ files' = logged.fs
          /\ loggedRequests' = lr.logged
          /\ reqs' = Append(reqs, NewReq("axios", requestId, input))
          /\ last' = [op |-> "logRequest", id |-> requestId, ret |-> lr.ret]
  /\ UNCHANGED <<now, timers, loggedResponses, pendingRequestIds, requestUrlMap,
                 requestMethodMap, axiosRequestIdMap, processVars>>

\* the response interceptor, for a response or an error response:
\* logResponse, then logResponseBody with the data axios decoded
AxiosResponse ==
  /\ ~exited
  /\ \E r \in 1..Len(reqs), res \in ResponseInputs :
       /\ reqs[r].kind = "axios"
       /\ reqs[r].stage = "open"
       /\ \E requestId \in {reqs[r].requestId},
             contentType \in {Or(Or(Get(res.headers, "content-type"),
                                    Get(res.headers, "Content-Type")), S(""))} :
          \E lr \in {logResponse(formatter, files, loggedResponses, requestId,
                                 res.statusCode, res.statusMessage, res.headers, now)} :
          \E logged \in {logResponseBody(lr.f, lr.fs, res.body.text, contentType,
                                         requestId, now)} :
             /\ formatter' = logged.f
             /\ files' = logged.fs
             /\ loggedResponses' = lr.logged
             /\ last' = [op |-> "logResponse", id |-> requestId,
                         status |-> res.statusCode, ret |-> <<lr.ret>>]
       /\ reqs' = [reqs EXCEPT ![r].res = res, ![r].stage = "done"]
  /\ UNCHANGED <<now, timers, loggedRequests, pendingRequestIds, requestUrlMap,
                 requestMethodMap, axiosRequestIdMap, processVars>>

\* the response interceptor for an error without a response
AxiosNetworkError ==
  /\ ~exited
  /\ \E r \in 1..Len(reqs) :
       /\ reqs[r].kind = "axios"
       /\ reqs[r].stage = "open"
       /\ formatter' = addSystemLog(formatter, "Axios error without response: Network Error",
                                    now)
       /\ reqs' = [reqs EXCEPT ![r].stage = "failed"]
       /\ last' = [op |-> "logSystem", id |-> reqs[r].requestId]
  /\ UNCHANGED <<now, files, timers, loggerVars, processVars>>

\* the instrumented program: the wrappers, the timer and the exit handler
Next ==
  \/ Tick
  \/ AutoSave
  \/ ExitHandler
  \/ WrappedRequest
  \/ ReqEnd
  \/ OnResponse
  \/ OnError
  \/ OnResEnd
  \/ DecompressDone
  \/ AxiosRequest
  \/ AxiosResponse
  \/ AxiosNetworkError

Spec == Init /\ [][Next]_vars

(***************************************************************************)
(* Calls of the exported har-logger functions by other code, all within    *)
(* one millisecond.                                                        *)
(***************************************************************************)
LogRequest ==
  /\ Len(entries) < MaxEntries
  /\ \E input \in RequestInputs, requestId \in RequestIds :
     \E p \in {normalizeRequestParams(input)} :
     \E lr \in {logRequest(formatter, loggedRequests, p.method, p.host, p.path, p.headers,
                           requestId, input.isHttps, "http", now)} :
          /\ formatter' = lr.f
          /\ loggedRequests' = lr.logged
          /\ last' = [op |-> "logRequest", id |-> requestId, ret |-> lr.ret]
  /\ UNCHANGED <<now, files, timers, loggedResponses, pendingRequestIds, requestUrlMap,
                 requestMethodMap, axiosRequestIdMap, processVars, reqs>>

LogResponse ==
  /\ \E requestId \in RequestIds, res \in ResponseInputs :
     \E lr \in {logResponse(formatter, files, loggedResponses, requestId, res.statusCode,
                            res.statusMessage, res.headers, now)} :
          /\ formatter' = lr.f
          /\ files' = lr.fs
          /\ loggedResponses' = lr.logged
          /\ last' = [op |-> "logResponse", id |-> requestId, status |-> res.statusCode,
                      ret |-> <<lr.ret>>, added |-> lr.added]
  /\ UNCHANGED <<now, timers, loggedRequests, pendingRequestIds, requestUrlMap,
                 requestMethodMap, axiosRequestIdMap, processVars, reqs>>

\* a program that calls the exported functions of har-logger itself
NextApi ==
  \/ LogRequest
  \/ LogResponse

SpecApi == Init /\ [][NextApi]_vars

(***************************************************************************)
(* The http wrapper on servers that answer with malformed content.         *)
(***************************************************************************)
\* the 'response' event of a request, with a response that is not what it
\* declares
OnOddResponse == Respond(OddResponses)

NextOdd ==
  \/ Tick
  \/ WrappedRequest
  \/ ReqEnd
  \/ OnOddResponse
  \/ OnResEnd
  \/ DecompressDone

SpecOdd == Init /\ [][NextOdd]_vars

(***************************************************************************)
(* Calls of the methods of the HarFormatter singleton by other code.       *)
(***************************************************************************)
\* HarFormatter.getHarString
getHarString(f) == Stringify(f.harData)

\* validateHar taking an empty entry list for a missing one
validateHar_NonEmpty(f) ==
  /\ "log" \in DOMAIN f.harData
  /\ \A field \in {"version", "creator", "entries"} :
       /\ field \in DOMAIN f.harData.log
       /\ field = "version" => f.harData.log[field] # ""
       /\ field = "entries" => Len(f.harData.log[field]) > 0

\* HarFormatter.validateHar: harData, log and the three required properties
\* of log are truthy; an object and an array, even an empty one, are truthy
validateHar(f) ==
  /\ "log" \in DOMAIN f.harData
  /\ \A field \in {"version", "creator", "entries"} :
       /\ field \in DOMAIN f.harData.log
       /\ field = "version" => f.harData.log[field] # ""

\* the identifier a caller opens an entry with, and the identifiers it closes
\* entries with, one of them never opened
OpenIds == {"a"}

HarIds == OpenIds \union {"b"}

\* the shapes of headers a caller may hand over: absent, null, an object with
\* string values, with an array value, with null and non-string values, with
\* a set-cookie that is not a string, and an array of name/value pairs
HeaderShapes ==
  { Undefined,
    Null,
    Obj(<< <<"content-type", S("text/plain")>> >>),
    Obj(<< <<"set-cookie", A(<<S("s=1; Path=/")>>)>> >>),
    Obj(<< <<"x-n", Null>>, <<"content-type", N(5)>> >>),
    Obj(<< <<"set-cookie", N(5)>> >>),
    A(<< Obj(<< <<"name", S("x-a")>>, <<"value", N(1)>> >>) >>) }

Bodies == {Null, S("a=1")}

\* the phases and durations given to updateTiming
Phases == {"dns", "wait"}

Durations == {0, 3}

\* addRequest(requestData); a TypeError it raises reaches the caller
AddRequest ==
  /\ Len(entries) < MaxHarEntries
  /\ \E requestId \in OpenIds, headers \in HeaderShapes, body \in Bodies :
     \E requestData \in {[requestId |-> requestId, method |-> "GET", url |-> "http://h/a",
                          headers |-> headers, body |-> body, httpVersion |-> "HTTP/1.1",
                          isHttps |-> FALSE, interceptorType |-> "http"]} :
       /\ formatter' = addRequest(formatter, requestData, now)
       /\ last' = [op |-> "addRequest", id |-> requestId, headers |-> headers,
                   threw |-> addRequestThrows(requestData)]
  /\ UNCHANGED <<now, files, timers, loggerVars, processVars, reqs>>

\* updateTiming(requestId, phase, duration)
UpdateTiming ==
  /\ \E requestId \in OpenIds, phase \in Phases, duration \in Durations :
       /\ formatter' = updateTiming(formatter, requestId, phase, duration)
       /\ last' = [op |-> "updateTiming", id |-> requestId, phase |-> phase,
                   duration |-> duration]
  /\ UNCHANGED <<now, files, timers, loggerVars, processVars, reqs>>

\* addResponse(responseData); a TypeError it raises reaches the caller
AddResponse ==
  /\ \E requestId \in HarIds, headers \in HeaderShapes :
     \E r \in {addResponse(formatter, files,
                           [requestId |-> requestId, statusCode |-> 200,
                            statusText |-> S("OK"), headers |-> headers, body |-> Null,
                            httpVersion |-> "HTTP/1.1"], now)} :
       /\ formatter' = r.f
       /\ files' = r.fs
       /\ last' = [op |-> "addResponse", id |-> requestId, headers |-> headers,
                   ret |-> r.ret, threw |-> r.threw]
  /\ UNCHANGED <<now, timers, loggerVars, processVars, reqs>>

\* getHarString()
GetHarString ==
  /\ last' = [op |-> "getHarString", ret |-> getHarString(formatter)]
  /\ UNCHANGED <<now, formatter, files, timers, loggerVars, processVars, reqs>>

\* validateHar()
ValidateHar ==
  /\ last' = [op |-> "validateHar", ret |-> validateHar(formatter)]
  /\ UNCHANGED <<now, formatter, files, timers, loggerVars, processVars, reqs>>

\* a program that drives the HarFormatter singleton itself, with the
\* auto-save timer running
NextHar ==
  \/ Tick
  \/ AutoSave
  \/ AddRequest
  \/ UpdateTiming
  \/ AddResponse
  \/ GetHarString
  \/ ValidateHar

SpecHar == Init /\ [][NextHar]_vars

(***************************************************************************)
(* Calls of decodeChunkedResponse by other code, on a text that is a       *)
(* sequence of pieces of chunk framing.                                    *)
(***************************************************************************)
\* size lines, data, the delimiter and the terminating chunk
Pieces == {"1\r\n", "2\r\n", "a", "xy", "\r\n", "0\r\n\r\n"}

RECURSIVE Texts(_)
\* the texts of at most n pieces
Texts(n) ==
  IF n = 0 THEN {""} ELSE Texts(n - 1) \union {t \o p : t \in Texts(n - 1), p \in Pieces}

\* the program holds a text
InitChunked ==
  /\ Loaded
  /\ last \in {[op |-> "text", text |-> t] : t \in Texts(MaxPieces)}

\* decodeChunkedResponse(text)
DecodeChunkedResponse ==
  /\ last.op = "text"
  /\ last' = [op |-> "decodeChunkedResponse", text |-> last.text,
              ret |-> decodeChunkedResponse(last.text)]
  /\ UNCHANGED <<now, formatter, files, timers, loggerVars, processVars, reqs>>

NextChunked == DecodeChunkedResponse

SpecChunked == InitChunked /\ [][NextChunked]_vars

(***************************************************************************)
(* Calls of decodeChunkedResponse on the chunked form of a body that was   *)
(* sent as a sequence of chunks.                                           *)
(***************************************************************************)
RECURSIVE ToHex(_)
\* n.toString(16)
ToHex(n) ==
  IF n < 16 THEN CharAt(HexDigits, n + 1) ELSE ToHex(n \div 16) \o CharAt(HexDigits, (n % 16) + 1)

RECURSIVE EncodeChunks(_)
\* [chunk size in hex][CRLF][chunk data][CRLF] for every chunk, the size
\* counting bytes
EncodeChunks(chunks) ==
  IF chunks = <<>> THEN ""
  ELSE ToHex(Len(BufferFrom(Head(chunks)))) \o "\r\n" \o Head(chunks) \o "\r\n"
       \o EncodeChunks(Tail(chunks))

\* the chunked form of a sequence of chunks: the chunks and 0[CRLF][CRLF]
encodeChunked(chunks) == EncodeChunks(chunks) \o "0\r\n\r\n"

\* the data of one chunk
Payloads == {"", "a", "xy", "@", "\r\n"}

RECURSIVE ChunkSeqs(_)
\* the sequences of at most n chunks
ChunkSeqs(n) ==
  IF n = 0 THEN {<<>>}
  ELSE ChunkSeqs(n - 1) \union {Append(cs, p) : cs \in ChunkSeqs(n - 1), p \in Payloads}

\* a body was split into chunks
InitEncoded ==
  /\ Loaded
  /\ last \in {[op |-> "chunks", chunks |-> cs] : cs \in ChunkSeqs(MaxChunks)}

\* decodeChunkedResponse(chunked form of the chunks)
DecodeEncoded ==
  /\ last.op = "chunks"
  /\ last' = [op |-> "decodeChunkedResponse", chunks |-> last.chunks,
              text |-> encodeChunked(last.chunks),
              ret |-> decodeChunkedResponse(encodeChunked(last.chunks))]
  /\ UNCHANGED <<now, formatter, files, timers, loggerVars, processVars, reqs>>

NextEncoded == DecodeEncoded

SpecEncoded == InitEncoded /\ [][NextEncoded]_vars

(***************************************************************************)
(* Calls of isChunkedResponse on the headers of a response.                *)
(***************************************************************************)
\* names a header object can have for its one property
HeaderNames ==
  {"transfer-encoding", "Transfer-Encoding", "TRANSFER-ENCODING", "Transfer-encoding",
   "content-type"}

\* values of that property
HeaderValues ==
  {S("chunked"), S("gzip, chunked"), S("chunked, gzip"), S("gzip,chunked"), S("Chunked"),
   S(" chunked "), S("gzip"), S("identity"), S("x-chunked"), S("unchunked"), S(""),
   A(<<S("gzip"), S("chunked")>>), Null}

\* the headers objects of the calls
ChunkedHeaders ==
  {Null, Undefined, Obj(<<>>)}
    \union {Obj(<<<<name, value>>>>) : name \in HeaderNames, value \in HeaderValues}

\* the program holds the headers of a response
InitHeaders ==
  /\ Loaded
  /\ last \in {[op |-> "headers", headers |-> h] : h \in ChunkedHeaders}

\* isChunkedResponse(headers)
IsChunkedResponse ==
  /\ last.op = "headers"
  /\ last' = [op |-> "isChunkedResponse", headers |-> last.headers,
              ret |-> isChunkedResponse(last.headers)]
  /\ UNCHANGED <<now, formatter, files, timers, loggerVars, processVars, reqs>>

NextHeaders == IsChunkedResponse

SpecHeaders == InitHeaders /\ [][NextHeaders]_vars

(***************************************************************************)
(* Calls of decompressResponseBody on a body and a content-encoding value. *)
(***************************************************************************)
\* what a buffer can be coded with, and the two corrupt streams
LayerKinds == {"gzip", "deflate", "raw", "br", "gzip?", "zlib?"}

\* the codings a content-encoding value can declare
Declarable == {"gzip", "deflate", "br"}

RECURSIVE SeqsOver(_, _)
\* the sequences of at most n elements of a set
SeqsOver(set, n) ==
  IF n = 0 THEN {<<>>}
  ELSE SeqsOver(set, n - 1) \union {Append(q, x) : q \in SeqsOver(set, n - 1), x \in set}

RECURSIVE ListOf(_)
\* the codings of a chain as a content-encoding value, 'E1, E2, ..., En'
ListOf(chain) ==
  IF Len(chain) = 0 THEN ""
  ELSE IF Len(chain) = 1 THEN chain[1]
  ELSE chain[1] \o ", " \o ListOf(Tail(chain))

\* the bodies: a text under at most MaxLayers codings
DecompressBuffers == {Buffer(text, layers) : text \in {"", "hi"}, layers \in SeqsOver(LayerKinds, MaxLayers)}

\* the content-encoding values: the lists of at most MaxLayers codings, and
\* other spellings and unknown codings
ContentEncodings ==
  {ListOf(chain) : chain \in SeqsOver(Declarable, MaxLayers)}
    \union {"GZIP", "gzip,br", "identity", "identity, gzip"}

\* the program holds a body and the content-encoding value that came with it
InitDecompress ==
  /\ Loaded
  /\ last \in {[op |-> "body", buffer |-> b, contentEncoding |-> ce] :
                b \in DecompressBuffers, ce \in ContentEncodings}

\* await decompressResponseBody(buffer, contentEncoding)
DecompressResponseBody ==
  /\ last.op = "body"
  /\ last' = [op |-> "decompressResponseBody", buffer |-> last.buffer,
              contentEncoding |-> last.contentEncoding,
              ret |-> decompressResponseBody(last.buffer, last.contentEncoding)]
  /\ UNCHANGED <<now, formatter, files, timers, loggerVars, processVars, reqs>>

NextDecompress == DecompressResponseBody

SpecDecompress == InitDecompress /\ [][NextDecompress]_vars

(***************************************************************************)
(* Calls of processEvent, one per event of a stream, on the message being  *)
(* reconstructed.                                                          *)
(***************************************************************************)
\* { type: eventType, data: eventData }
Event(eventType, eventData) == [type |-> eventType, data |-> eventData]

\* the payload of a content_block_start
StartOf(index, blockType) ==
  Obj(<<<<"index", N(index)>>, <<"content_block", Obj(<<<<"type", S(blockType)>>>>)>>>>)

\* the payload of a content_block_delta
DeltaOf(index, deltaType, field, value) ==
  Obj(<<<<"index", N(index)>>,
        <<"delta", Obj(<<<<"type", S(deltaType)>>, <<field, value>>>>)>>>>)

\* the payload of a message_delta
MessageDeltaOf(pairs) == Obj(<<<<"delta", Obj(pairs)>>>>)

\* what JSON.parse failing leaves as the data of an event
ParseError(raw) == Obj(<<<<"raw", S(raw)>>, <<"parse_error", S("Unexpected token")>>>>)

\* the events of the calls
StreamEvents ==
  { Event("message_start",
          Obj(<<<<"message", Obj(<<<<"id", S("m1")>>, <<"role", S("assistant")>>,
                                   <<"usage", Obj(<<<<"input_tokens", N(1)>>>>)>>,
                                   <<"stop_reason", Null>>,
                                   <<"stop_sequence", Null>>>>)>>>>)),
    Event("content_block_start", StartOf(0, "text")),
    Event("content_block_start", StartOf(1, "thinking")),
    Event("content_block_start", StartOf(1, "tool_use")),
    Event("content_block_start", Obj(<<>>)),
    Event("content_block_delta", DeltaOf(0, "text_delta", "text", S("a"))),
    Event("content_block_delta", DeltaOf(0, "text_delta", "text", S("b"))),
    Event("content_block_delta", DeltaOf(1, "thinking_delta", "thinking", S("t"))),
    Event("content_block_delta",
          DeltaOf(1, "tool_use_delta", "tool_use", Obj(<<<<"k", N(1)>>>>))),
    Event("content_block_delta",
          DeltaOf(1, "tool_use_delta", "tool_use", Obj(<<<<"j", N(1)>>, <<"k", N(2)>>>>))),
    Event("content_block_delta", DeltaOf(2, "text_delta", "text", S("c"))),
    Event("content_block_delta", Obj(<<<<"index", N(0)>>>>)),
    Event("content_block_delta", ParseError("{")),
    Event("message_delta",
          MessageDeltaOf(<<<<"stop_reason", S("end_turn")>>, <<"stop_sequence", Null>>,
                           <<"usage", Obj(<<<<"output_tokens", N(5)>>>>)>>>>)),
    Event("message_delta", MessageDeltaOf(<<<<"stop_sequence", S("END")>>>>)),
    Event("message_delta", Obj(<<>>)),
    Event("message_delta", Null),
    Event("error", Obj(<<<<"type", S("error")>>>>)),
    Event("ping", Obj(<<<<"type", S("ping")>>>>)),
    Event("content_block_stop", Obj(<<<<"index", N(0)>>>>)),
    Event("message_stop", Obj(<<<<"type", S("message_stop")>>>>)) }

\* the message parseSSEStream starts from: { content: [], metadata: {} }
NewMessage == [content |-> EmptyMap, props |-> MapSet(EmptyMap, "metadata", Obj(<<>>)),
               errors |-> <<>>]

\* the caller holds a new message
InitEvents ==
  /\ Loaded
  /\ last = [op |-> "message", message |-> NewMessage, n |-> 0]

\* processEvent(eventType, eventData, message)
ProcessEvent ==
  /\ "message" \in DOMAIN last
  /\ last.n < MaxEvents
  /\ \E e \in StreamEvents :
       last' = [op |-> "processEvent", eventType |-> e.type, eventData |-> e.data,
                message |-> processEvent(e.type, e.data, last.message), n |-> last.n + 1]
  /\ UNCHANGED <<now, formatter, files, timers, loggerVars, processVars, reqs>>

NextEvents == ProcessEvent

SpecEvents == InitEvents /\ [][NextEvents]_vars

(***************************************************************************)
(* stream-decoder: parseSSEStream, and calls of it on the text of a        *)
(* stream.                                                                 *)
(***************************************************************************)
\* the positions from start on at which sep occurs in s
Occurrences(s, sep, start) ==
  {i \in start..(Len(s) - Len(sep) + 1) : SubSeq(s, i, i + Len(sep) - 1) = sep}

\* the first of them, 0 when there is none
NextOccurrence(s, sep, start) ==
  IF Occurrences(s, sep, start) = {} THEN 0
  ELSE CHOOSE i \in Occurrences(s, sep, start) : \A j \in Occurrences(s, sep, start) : i <= j

RECURSIVE SplitAt(_, _, _)
\* the pieces of s from position start on, between the occurrences of sep
\* taken from left to right
SplitAt(s, sep, start) ==
  IF NextOccurrence(s, sep, start) = 0 THEN <<SubSeq(s, start, Len(s))>>
  ELSE <<SubSeq(s, start, NextOccurrence(s, sep, start) - 1)>>
       \o SplitAt(s, sep, NextOccurrence(s, sep, start) + Len(sep))

\* s.split(sep) for a separator of one or more characters
SplitOn(s, sep) == SplitAt(s, sep, 1)

\* chunk.match(/^<field>: (.+)$/m): the lines that match, in order; the
\* first one is the match (the texts of the model have no "\r")
Matches(chunk, field) ==
  SelectSeq(SplitOn(chunk, "\n"),
            LAMBDA line : StartsWith(line, field \o ": ") /\ Len(line) > Len(field) + 2)

\* the group (.+) of a matching line
Group(line, field) == SubSeq(line, Len(field) + 3, Len(line))

\* JSON.parse on the payload texts of the model: the value of a text that
\* is JSON
JsonValues ==
  { <<"{\"index\":0,\"content_block\":{\"type\":\"text\"}}", StartOf(0, "text")>>,
    <<"{\"index\":0,\"delta\":{\"type\":\"text_delta\",\"text\":\"a\"}}",
      DeltaOf(0, "text_delta", "text", S("a"))>>,
    <<"{\"index\":2,\"delta\":{\"type\":\"text_delta\",\"text\":\"c\"}}",
      DeltaOf(2, "text_delta", "text", S("c"))>>,
    <<"{\"delta\":{\"stop_reason\":\"end_turn\"}}",
      MessageDeltaOf(<<<<"stop_reason", S("end_turn")>>>>)>>,
    <<"{\"type\":\"ping\"}", Obj(<<<<"type", S("ping")>>>>)>>,
    <<"{\"type\":\"message_stop\"}", Obj(<<<<"type", S("message_stop")>>>>)>>,
    <<"null", Null>> }

\* try { eventData = JSON.parse(text) } catch (e) { eventData = { raw, parse_error } }
JsonParse(text) ==
  IF \E pair \in JsonValues : pair[1] = text
    THEN (CHOOSE pair \in JsonValues : pair[1] = text)[2]
    ELSE ParseError(text)

\* as ParseChunk, leaving out an event whose payload does not parse
ParseChunk_DropUnparsed(chunk, result) ==
  IF Trim(chunk) = "" \/ Len(Matches(chunk, "event")) = 0 \/ Len(Matches(chunk, "data")) = 0
    THEN result
  ELSE IF JsonParse(Group(Matches(chunk, "data")[1], "data")) = ParseError(Group(Matches(chunk, "data")[1], "data"))
    THEN result
  ELSE [events |-> Append(result.events, Event(Group(Matches(chunk, "event")[1], "event"), JsonParse(Group(Matches(chunk, "data")[1], "data")))),
        reconstructedMessage |-> processEvent(Group(Matches(chunk, "event")[1], "event"), JsonParse(Group(Matches(chunk, "data")[1], "data")), result.reconstructedMessage)]

\* the body of the loop over the chunks
ParseChunk(chunk, result) ==
  IF Trim(chunk) = "" \/ Len(Matches(chunk, "event")) = 0 \/ Len(Matches(chunk, "data")) = 0
    THEN result
  ELSE With(Event(Group(Matches(chunk, "event")[1], "event"),
                  JsonParse(Group(Matches(chunk, "data")[1], "data"))),
            LAMBDA event :
              [events |-> Append(result.events, event),
               reconstructedMessage |->
                 processEvent(event.type, event.data, result.reconstructedMessage)])

RECURSIVE ParseChunks(_, _)
\* for (const chunk of eventChunks)
ParseChunks(eventChunks, result) ==
  IF Len(eventChunks) = 0 THEN result
  ELSE ParseChunks(Tail(eventChunks), ParseChunk(Head(eventChunks), result))

\* stream-decoder parseSSEStream
parseSSEStream(content) ==
  IF ~Truthy(content) \/ content.t # "str"
    THEN [events |-> <<>>,
          reconstructedMessage |-> [content |-> EmptyMap, props |-> EmptyMap, errors |-> <<>>]]
    ELSE ParseChunks(SplitOn(content.v, "\n\n"),
                     [events |-> <<>>, reconstructedMessage |-> NewMessage])

\* the blocks of a stream: the text of the block, and for the reader the
\* event type it declares and whether its payload is JSON ("json"), is not
\* ("text"), or the block lacks one of the two lines ("none")
StreamBlocks ==
  { [text |-> "event: content_block_start\ndata: {\"index\":0,\"content_block\":{\"type\":\"text\"}}",
     type |-> "content_block_start", payload |-> "json"],
    [text |-> "event: content_block_delta\ndata: {\"index\":0,\"delta\":{\"type\":\"text_delta\",\"text\":\"a\"}}",
     type |-> "content_block_delta", payload |-> "json"],
    [text |-> "event: content_block_delta\ndata: {\"index\":2,\"delta\":{\"type\":\"text_delta\",\"text\":\"c\"}}",
     type |-> "content_block_delta", payload |-> "json"],
    [text |-> "event: message_delta\ndata: {\"delta\":{\"stop_reason\":\"end_turn\"}}",
     type |-> "message_delta", payload |-> "json"],
    [text |-> "event: message_delta\ndata: null", type |-> "message_delta", payload |-> "json"],
    [text |-> "event: message_start\ndata: {\"message\":{INVALID_JSON",
     type |-> "message_start", payload |-> "text"],
    [text |-> "event: ping\ndata: {\"type\":\"ping\"}", type |-> "ping", payload |-> "json"],
    [text |-> "data: {\"type\":\"ping\"}\nevent: ping", type |-> "ping", payload |-> "json"],
    [text |-> "event: message_stop\ndata: {\"type\":\"message_stop\"}",
     type |-> "message_stop", payload |-> "json"],
    [text |-> "event: content_block_stop\ndata: {", type |-> "content_block_stop",
     payload |-> "text"],
    [text |-> "event: ping", type |-> "ping", payload |-> "none"],
    [text |-> " ", type |-> "", payload |-> "none"] }

RECURSIVE TextOf(_)
\* the text of a stream: its blocks with an empty line between them
TextOf(blocks) ==
  IF Len(blocks) = 0 THEN ""
  ELSE IF Len(blocks) = 1 THEN blocks[1].text
  ELSE blocks[1].text \o "\n\n" \o TextOf(Tail(blocks))

\* the arguments of the calls: the texts of at most MaxBlocks blocks, and
\* values that are no text
StreamContents ==
  {[blocks |-> blocks, content |-> S(TextOf(blocks))] : blocks \in SeqsOver(StreamBlocks, MaxBlocks)}
    \union {[blocks |-> <<>>, content |-> c] : c \in {Null, Undefined, N(123)}}

\* the caller holds the content of a response
InitParse ==
  /\ Loaded
  /\ last \in {[op |-> "content", blocks |-> c.blocks, content |-> c.content] :
                c \in StreamContents}

\* parseSSEStream(content)
ParseSSEStream ==
  /\ last.op = "content"
  /\ last' = [op |-> "parseSSEStream", blocks |-> last.blocks, content |-> last.content,
              ret |-> parseSSEStream(last.content)]
  /\ UNCHANGED <<now, formatter, files, timers, loggerVars, processVars, reqs>>

NextParse == ParseSSEStream

SpecParse == InitParse /\ [][NextParse]_vars

(***************************************************************************)
(* json-formatter: formatJson.  The objects a caller holds are cells of a   *)
(* heap: a property or an item is a string, a number or a reference to a    *)
(* cell, so that an object can be reached from itself.                      *)
(***************************************************************************)
\* a reference to the cell id of the heap
Ref(id) == [t |-> "ref", id |-> id]

\* RangeError: Maximum call stack size exceeded
RangeError == [t |-> "RangeError"]

RECURSIVE limitObjectDepth(_, _, _)
RECURSIVE CopyEntries(_, _, _)
\* the loop of limitObjectDepth over Object.entries(obj), or obj.map for an
\* array: a copy of each value that is an object, the other values as they are
CopyEntries(heap, pairs, currentDepth) ==
  IF Len(pairs) = 0 THEN [t |-> "entries", v |-> <<>>]
  ELSE With(IF pairs[1][2].t = "ref"
              THEN limitObjectDepth(heap, pairs[1][2], currentDepth + 1)
              ELSE pairs[1][2],
            LAMBDA value :
              IF value.t = "RangeError" THEN RangeError
              ELSE With(CopyEntries(heap, Tail(pairs), currentDepth), LAMBDA rest :
                     IF rest.t = "RangeError" THEN RangeError
                     ELSE [t |-> "entries", v |-> <<<<pairs[1][1], value>>>> \o rest.v]))

\* limitObjectDepth(obj, maxDepth, maxValueLength, currentDepth): a new
\* object or array for every object it meets.  maxDepth is not read.  A call
\* nested deeper than the stack of the engine allows raises RangeError.
limitObjectDepth(heap, obj, currentDepth) ==
  IF currentDepth >= MaxStack THEN RangeError
  ELSE With(CopyEntries(heap, heap[obj.id].pairs, currentDepth), LAMBDA copied :
         IF copied.t = "RangeError" THEN RangeError
         ELSE IF heap[obj.id].kind = "array"
           THEN A([i \in 1..Len(copied.v) |-> copied.v[i][2]])
         ELSE Obj(copied.v))

RECURSIVE JsonText(_, _)
RECURSIVE JsonItems(_, _)
RECURSIVE JsonMembers(_, _)
\* the items of an array, one per line
JsonItems(items, indent) ==
  indent \o JsonText(items[1], indent)
    \o (IF Len(items) = 1 THEN "" ELSE ",\n" \o JsonItems(Tail(items), indent))

\* the properties of an object, one per line
JsonMembers(pairs, indent) ==
  indent \o "\"" \o pairs[1][1] \o "\": " \o JsonText(pairs[1][2], indent)
    \o (IF Len(pairs) = 1 THEN "" ELSE ",\n" \o JsonMembers(Tail(pairs), indent))

\* JSON.stringify(safeObj, replacerFunction(..), 2) for strings without
\* characters to escape.  No two values of safeObj are the same object, so
\* seenObjects.indexOf(value) is -1 for each and the replacer returns it.
JsonText(value, indent) ==
  CASE value.t = "str" -> "\"" \o value.v \o "\""
    [] value.t = "num" -> ToString(value.v)
    [] value.t = "arr" ->
         IF Len(value.v) = 0 THEN "[]"
         ELSE "[\n" \o JsonItems(value.v, indent \o "  ") \o "\n" \o indent \o "]"
    [] value.t = "obj" ->
         IF Len(value.v) = 0 THEN "{}"
         ELSE "{\n" \o JsonMembers(value.v, indent \o "  ") \o "\n" \o indent \o "}"
    [] OTHER -> "null"

\* the number of white space characters of s from position i on
WhiteRun(s, i) ==
  CHOOSE n \in 0..(Len(s) - i + 1) :
    /\ \A k \in 0..(n - 1) : CharAt(s, i + k) \in WhiteSpace
    /\ i + n > Len(s) \/ CharAt(s, i + n) \notin WhiteSpace

\* the number of characters the rest of a pattern takes from position i on,
\* 0 when it does not match there:
\*   "open"   \s+             after "[\n"
\*   "item"   \s+(?=[^{[])    after ",\n": before { or [ the run gives back
\*                            its last character, which the lookahead takes
\*   "close"  \s+\]           after "\n"
Taken(pattern, s, i) ==
  With(WhiteRun(s, i), LAMBDA n :
    CASE pattern = "open" -> n
      [] pattern = "item" ->
           IF n >= 1 /\ i + n <= Len(s) /\ CharAt(s, i + n) \notin {"{", "["} THEN n
           ELSE IF n >= 2 THEN n - 1
           ELSE 0
      [] OTHER -> IF n >= 1 /\ i + n <= Len(s) /\ CharAt(s, i + n) = "]" THEN n + 1 ELSE 0)

RECURSIVE ReplaceFrom(_, _, _, _, _)
\* s.replace(/<prefix><pattern>/g, replacement), from position start on
ReplaceFrom(s, prefix, pattern, replacement, start) ==
  With(NextOccurrence(s, prefix, start), LAMBDA i :
    IF i = 0 THEN SubSeq(s, start, Len(s))
    ELSE With(Taken(pattern, s, i + Len(prefix)), LAMBDA n :
           IF n = 0
             THEN SubSeq(s, start, i) \o ReplaceFrom(s, prefix, pattern, replacement, i + 1)
           ELSE SubSeq(s, start, i - 1) \o replacement
                  \o ReplaceFrom(s, prefix, pattern, replacement, i + Len(prefix) + n)))

\* formatted.replace(/\[\n\s+/g, '[').replace(/,\n\s+(?=[^{[])/g, ', ')
\*          .replace(/\n\s+\]/g, ']')
CompactArrays(formatted) ==
  ReplaceFrom(ReplaceFrom(ReplaceFrom(formatted, "[\n", "open", "[", 1),
                          ",\n", "item", ", ", 1),
              "\n", "close", "]", 1)

\* formatJson(obj) with the default options
formatJson(heap, obj) ==
  IF obj.t \in {"null", "undefined"} THEN StringOf(obj)
  ELSE IF obj.t # "ref" THEN JsonText(obj, "")
  ELSE With(limitObjectDepth(heap, obj, 0), LAMBDA safeObj :
         IF safeObj.t = "RangeError"
           THEN "[Error formatting JSON: Maximum call stack size exceeded] "
                  \o Substring(IF heap[obj.id].kind = "array" THEN "" ELSE "[object Object]",
                               0, 200)
         ELSE CompactArrays(JsonText(safeObj, "")))

(***************************************************************************)
(* Calls of formatJson on an object of a heap of at most MaxCells cells.    *)
(***************************************************************************)
\* what a property or an item of a cell can be
CellValues(n) == {S("Circular"), N(1)} \union {Ref(id) : id \in 1..n}

\* an object has its properties under these names, in this order
CellKeys == <<"name", "self">>

\* the cells of a heap of n cells: objects and arrays of up to two values
Cells(n) ==
  {[kind |-> kind, pairs |-> [i \in 1..Len(values) |-> <<CellKeys[i], values[i]>>]] :
     kind \in {"object", "array"}, values \in SeqsOver(CellValues(n), 2)}

\* the heaps; cell 1 is the object given to formatJson
Heaps ==
  UNION {{heap \in [1..n -> Cells(n)] : heap[1].kind = "object"} : n \in 1..MaxCells}

\* the caller holds an object, or a value that is none
InitFormat ==
  /\ Loaded
  /\ last \in {[op |-> "object", heap |-> heap, obj |-> Ref(1)] : heap \in Heaps}
                \union {[op |-> "object", heap |-> <<>>, obj |-> value] :
                          value \in {Null, Undefined, S("Circular"), N(1)}}

\* formatJson(obj)
FormatJson ==
  /\ last.op = "object"
  /\ last' = [op |-> "formatJson", heap |-> last.heap, obj |-> last.obj,
              ret |-> formatJson(last.heap, last.obj)]
  /\ UNCHANGED <<now, formatter, files, timers, loggerVars, processVars, reqs>>

NextFormat == FormatJson

SpecFormat == InitFormat /\ [][NextFormat]_vars

(***************************************************************************)
(* json-formatter: isLikelyJson, and calls of it on a content.              *)
(***************************************************************************)
\* the characters of \w and the hyphen
WordChars ==
  {CharAt("abcdefghijklmnopqrstuvwxyzABCDEFGHIJKLMNOPQRSTUVWXYZ0123456789_-", i) : i \in 1..64}

EndsWith(s, p) == Len(s) >= Len(p) /\ SubSeq(s, Len(s) - Len(p) + 1, Len(s)) = p

\* "[\w-]+": matches at position i of s
PropertyNameAt(s, i) ==
  /\ i <= Len(s)
  /\ CharAt(s, i) = "\""
  /\ \E j \in (i + 2)..(Len(s) - 1) :
       /\ CharAt(s, j) = "\""
       /\ CharAt(s, j + 1) = ":"
       /\ \A k \in (i + 1)..(j - 1) : CharAt(s, k) \in WordChars

\* jsonPatterns.some(pattern => pattern.test(trimmed))
MatchesJsonPattern(trimmed) ==
  \/ \E i \in 1..Len(trimmed) : PropertyNameAt(trimmed, i)
  \/ \E i \in 1..Len(trimmed) :
       /\ CharAt(trimmed, i) = "{"
       /\ PropertyNameAt(trimmed, i + 1 + WhiteRun(trimmed, i + 1))
  \/ \E i \in 1..Len(trimmed) :
       /\ CharAt(trimmed, i) = "["
       /\ With(i + 1 + WhiteRun(trimmed, i + 1), LAMBDA j :
            /\ j <= Len(trimmed)
            /\ CharAt(trimmed, j) = "{"
            /\ With(j + 1 + WhiteRun(trimmed, j + 1), LAMBDA k :
                 k <= Len(trimmed) /\ CharAt(trimmed, k) = "\""))

\* the texts of the model JSON.parse accepts
JsonTexts ==
  {"{\"name\":\"Test\"}", "[1,2,3]", "{\"items\":[1,2,3]}", "{}", "[]", "1", "\"a\""}

\* as isLikelyJson, without the test of the patterns
isLikelyJson_ParsedOnly(content) ==
  /\ Truthy(content)
  /\ content.t = "str"
  /\ \/ StartsWith(Trim(content.v), "{") /\ EndsWith(Trim(content.v), "}")
     \/ StartsWith(Trim(content.v), "[") /\ EndsWith(Trim(content.v), "]")
  /\ Trim(content.v) \in JsonTexts

\* isLikelyJson(content)
isLikelyJson(content) ==
  IF ~Truthy(content) \/ content.t # "str" THEN FALSE
  ELSE IF \/ StartsWith(Trim(content.v), "{") /\ EndsWith(Trim(content.v), "}")
          \/ StartsWith(Trim(content.v), "[") /\ EndsWith(Trim(content.v), "]")
    THEN Trim(content.v) \in JsonTexts
  ELSE MatchesJsonPattern(Trim(content.v))

\* the texts a content is made around: whether the text is enclosed in
\* braces or brackets, whether it is JSON, and whether it has a quoted
\* property name before a colon or opens an array of objects
JsonCores ==
  { [text |-> "{\"name\":\"Test\"}", enclosed |-> TRUE, json |-> TRUE, named |-> TRUE],
    [text |-> "[1,2,3]", enclosed |-> TRUE, json |-> TRUE, named |-> FALSE],
    [text |-> "{\"items\":[1,2,3]}", enclosed |-> TRUE, json |-> TRUE, named |-> TRUE],
    [text |-> "{}", enclosed |-> TRUE, json |-> TRUE, named |-> FALSE],
    [text |-> "[]", enclosed |-> TRUE, json |-> TRUE, named |-> FALSE],
    [text |-> "1", enclosed |-> FALSE, json |-> TRUE, named |-> FALSE],
    [text |-> "\"a\"", enclosed |-> FALSE, json |-> TRUE, named |-> FALSE],
    [text |-> "{name}", enclosed |-> TRUE, json |-> FALSE, named |-> FALSE],
    [text |-> "{\"name\":Test}", enclosed |-> TRUE, json |-> FALSE, named |-> TRUE],
    [text |-> "[1,2", enclosed |-> FALSE, json |-> FALSE, named |-> FALSE],
    [text |-> "{\"name\":\"Test\"", enclosed |-> FALSE, json |-> FALSE, named |-> TRUE],
    [text |-> "\"my-key\": 1", enclosed |-> FALSE, json |-> FALSE, named |-> TRUE],
    [text |-> "\"my key\": 1", enclosed |-> FALSE, json |-> FALSE, named |-> FALSE],
    [text |-> "[ {\"", enclosed |-> FALSE, json |-> FALSE, named |-> TRUE],
    [text |-> "This is not JSON", enclosed |-> FALSE, json |-> FALSE, named |-> FALSE],
    [text |-> "<html>Not JSON</html>", enclosed |-> FALSE, json |-> FALSE, named |-> FALSE],
    [text |-> "", enclosed |-> FALSE, json |-> FALSE, named |-> FALSE] }

\* the contents: a text with white space or other text around it, and
\* values that are no text
Contents ==
  {[core |-> core, before |-> before, after |-> after,
    content |-> S(before \o core.text \o after)] :
     core \in JsonCores, before \in {"", " ", "x"}, after \in {"", " ", "\n", "x"}}
    \union {[core |-> [text |-> "", enclosed |-> FALSE, json |-> FALSE, named |-> FALSE],
             before |-> "", after |-> "", content |-> c] :
              c \in {Null, Undefined, N(0), N(123), Obj(<<<<"name", S("Test")>>>>)}}

\* the caller holds a content
InitLikely ==
  /\ Loaded
  /\ last \in {[op |-> "text", core |-> c.core, before |-> c.before, after |-> c.after,
                content |-> c.content] : c \in Contents}

\* isLikelyJson(content)
IsLikelyJson ==
  /\ last.op = "text"
  /\ last' = [op |-> "isLikelyJson", core |-> last.core, before |-> last.before,
              after |-> last.after, content |-> last.content,
              ret |-> isLikelyJson(last.content)]
  /\ UNCHANGED <<now, formatter, files, timers, loggerVars, processVars, reqs>>

NextLikely == IsLikelyJson

SpecLikely == InitLikely /\ [][NextLikely]_vars

(***************************************************************************)
(* Calls of addRequest and addResponse by other code, with the status      *)
(* codes and the Location headers of redirects and of other responses.     *)
(***************************************************************************)
\* status codes inside and at both ends outside of 300..399
Statuses == {200, 201, 299, 300, 302, 399, 400}

\* response headers without a Location header, with one under either name,
\* with both, and with an empty one
LocationHeaders ==
  { Obj(<<>>),
    Obj(<< <<"content-type", S("text/html")>> >>),
    Obj(<< <<"location", S("/new")>> >>),
    Obj(<< <<"Location", S("/new")>> >>),
    Obj(<< <<"content-type", S("text/html")>>, <<"Location", S("http://h/b")>> >>),
    Obj(<< <<"location", S("/a")>>, <<"Location", S("/b")>> >>),
    Obj(<< <<"location", S("")>> >>),
    Obj(<< <<"location", S("")>>, <<"Location", S("/b")>> >>) }

\* addResponse(responseData) for a response with a status code and headers
AddStatusResponse ==
  /\ \E requestId \in HarIds, statusCode \in Statuses, headers \in LocationHeaders :
     \E r \in {addResponse(formatter, files,
                           [requestId |-> requestId, statusCode |-> statusCode,
                            statusText |-> S(""), headers |-> headers, body |-> Null,
                            httpVersion |-> "HTTP/1.1"], now)} :
       /\ formatter' = r.f
       /\ files' = r.fs
       /\ last' = [op |-> "addResponse", id |-> requestId, statusCode |-> statusCode,
                   headers |-> headers, ret |-> r.ret, threw |-> r.threw]
  /\ UNCHANGED <<now, timers, loggerVars, processVars, reqs>>

\* addRequest(requestData) for the one request of the caller
AddOneRequest ==
  /\ Len(entries) = 0
  /\ \E requestId \in OpenIds :
     \E requestData \in {[requestId |-> requestId, method |-> "GET", url |-> "http://h/a",
                          headers |-> Obj(<<>>), body |-> Null, httpVersion |-> "HTTP/1.1",
                          isHttps |-> FALSE, interceptorType |-> "http"]} :
       /\ formatter' = addRequest(formatter, requestData, now)
       /\ last' = [op |-> "addRequest", id |-> requestId, headers |-> requestData.headers,
                   threw |-> addRequestThrows(requestData)]
  /\ UNCHANGED <<now, files, timers, loggerVars, processVars, reqs>>

NextRedirect ==
  \/ Tick
  \/ AddOneRequest
  \/ AddStatusResponse

SpecRedirect == Init /\ [][NextRedirect]_vars

(***************************************************************************)
(* Calls of extractSetCookies on the headers of a response.  A cookie       *)
(* string is a first segment and attribute segments after it.               *)
(***************************************************************************)
\* first segments, with the name and the value they give the cookie
CookieFirsts ==
  { [text |-> "sessionId=abc123", name |-> "sessionId", value |-> "abc123"],
    [text |-> " sid=1", name |-> "sid", value |-> "1"],
    [text |-> "flag", name |-> "flag", value |-> ""],
    [text |-> "token=abc==", name |-> "token", value |-> "abc=="],
    [text |-> "q=a=b", name |-> "q", value |-> "a=b"] }

\* attribute segments, with the field of the cookie they set ("" for an
\* attribute that sets none) and its value
CookieSegments ==
  { [text |-> "Path=/", field |-> "path", value |-> "/"],
    [text |-> "path=/x", field |-> "path", value |-> "/x"],
    [text |-> "Domain=h.com", field |-> "domain", value |-> "h.com"],
    [text |-> "EXPIRES=Wed, 01 Jan 2025", field |-> "expires", value |-> "Wed, 01 Jan 2025"],
    [text |-> "HttpOnly", field |-> "httpOnly", value |-> ""],
    [text |-> "SECURE", field |-> "secure", value |-> ""],
    [text |-> "Max-Age=3", field |-> "", value |-> ""] }

RECURSIVE SegmentsText(_)
\* the attribute segments as they follow the first segment
SegmentsText(segments) ==
  IF Len(segments) = 0 THEN ""
  ELSE "; " \o segments[1].text \o SegmentsText(Tail(segments))

\* a cookie string
CookieString(cookie) == cookie.first.text \o SegmentsText(cookie.segments)

\* cookies of up to n attribute segments
CookiesOf(n) ==
  {[first |-> first, segments |-> segments] :
     first \in CookieFirsts, segments \in SeqsOver(CookieSegments, n)}

\* the headers of a response: a Set-Cookie list of one cookie of up to
\* MaxSegments attributes or of two cookies of fewer, and one cookie as a
\* string
SetCookieHeaders ==
  {[cookies |-> cookies,
    headers |-> Obj(<< <<"Set-Cookie",
                         A([i \in 1..Len(cookies) |-> S(CookieString(cookies[i]))])>> >>)] :
     cookies \in {<<c>> : c \in CookiesOf(MaxSegments)}
                   \union {<<c, d>> : c \in CookiesOf(MaxSegments - 1),
                                      d \in CookiesOf(MaxSegments - 1)}}
    \union {[cookies |-> <<c>>,
             headers |-> Obj(<< <<"set-cookie", S(CookieString(c))>> >>)] :
              c \in CookiesOf(MaxSegments - 1)}

\* the caller holds the headers of a response
InitCookies ==
  /\ Loaded
  /\ last \in {[op |-> "headers", cookies |-> h.cookies, headers |-> h.headers] :
                h \in SetCookieHeaders}

\* extractSetCookies(headers)
ExtractSetCookies ==
  /\ last.op = "headers"
  /\ last' = [op |-> "extractSetCookies", cookies |-> last.cookies, headers |-> last.headers,
              ret |-> extractSetCookies(last.headers)]
  /\ UNCHANGED <<now, formatter, files, timers, loggerVars, processVars, reqs>>

NextCookies == ExtractSetCookies

SpecCookies == InitCookies /\ [][NextCookies]_vars

(***************************************************************************)
(* The loop of decodeChunkedResponse, pass by pass, on a text whose size    *)
(* lines can carry a sign.  The call is under way from the first pass until *)
(* it returns or throws.                                                   *)
(***************************************************************************)
\* size lines with a sign, without a number and with one, data, the
\* delimiter and the terminating chunk
SignedPieces ==
  {"-6\r\n", "-4\r\n", "-ff\r\n", "zz\r\n", "1\r\n", "2\r\n", "a", "\r\n", "0\r\n\r\n"}

RECURSIVE SignedTexts(_)
\* the texts of at most n of these pieces
SignedTexts(n) ==
  IF n = 0 THEN {""}
  ELSE SignedTexts(n - 1) \union {t \o p : t \in SignedTexts(n - 1), p \in SignedPieces}

\* decodeChunkedResponse(text) has been called: pos = 0
InitLoop ==
  /\ Loaded
  /\ last \in {[op |-> "loop", text |-> t, pos |-> N(0), passes |-> 0] :
                t \in SignedTexts(MaxChunks)}

\* the loop condition holds and the body of the loop runs once
Pass ==
  /\ last.op = "loop"
  /\ last.pos.t = "num"
  /\ last.pos.v < Len(last.text)
  /\ \E pass \in {LoopPass(last.text, last.pos.v)} :
       last' = [op |-> pass.next, text |-> last.text, pos |-> pass.pos,
                passes |-> IF last.passes < MaxChunks + 1 THEN last.passes + 1 ELSE last.passes]
  /\ UNCHANGED <<now, formatter, files, timers, loggerVars, processVars, reqs>>

\* the loop condition fails (pos is NaN or not below the length) and the
\* result is returned
Return ==
  /\ last.op = "loop"
  /\ IF last.pos.t = "num" THEN last.pos.v >= Len(last.text) ELSE TRUE
  /\ last' = [last EXCEPT !.op = "return"]
  /\ UNCHANGED <<now, formatter, files, timers, loggerVars, processVars, reqs>>

NextLoop ==
  \/ Pass
  \/ Return

SpecLoop == InitLoop /\ [][NextLoop]_vars

\* the call runs on: a pass that can be made is made
SpecLoopRuns == SpecLoop /\ WF_vars(NextLoop)

(***************************************************************************)
(* The life cycle: HarFormatter.initializeLog and cleanup, har-logger       *)
(* initializeLogging, registerExitHandler and removeExitHandler called any  *)
(* number of times in any order after loading, while the clock advances,    *)
(* the armed timers fire and the process can come to its end.               *)
(***************************************************************************)
\* the timers armed at once and the notes in the comment of the log are
\* bounded
MaxTimers == 2
MaxNotes == 3

\* the handle setInterval returns: one that no armed timer and no field has
NewHandle(f, armed) ==
  1 + Max(f.autoSaveInterval,
          IF armed = {} THEN 0 ELSE CHOOSE h \in armed : \A g \in armed : g <= h)

\* HarFormatter.initializeLog(logsDir, {autoSave}): the formatter, the file
\* system and the armed timers after the call
InitializeLogOf(f, fs, armed, logsDir, autoSave, t) ==
  IF autoSave
    THEN [f |-> initializeLog(f, logsDir, t, NewHandle(f, armed)),
          fs |-> saveHar(initializeLog(f, logsDir, t, NewHandle(f, armed)), fs),
          timers |-> armed \union {NewHandle(f, armed)}]
    ELSE [f |-> initializeLog(f, logsDir, t, f.autoSaveInterval),
          fs |-> saveHar(initializeLog(f, logsDir, t, f.autoSaveInterval), fs),
          timers |-> armed]

\* registerExitHandler installing its listener whatever the flag says
registerExitHandler_Always(registered, listeners, f, t) ==
  [registered |-> TRUE, listeners |-> listeners + 1, f |-> f]

\* har-logger registerExitHandler: the flag, the number of beforeExit
\* listeners of the logger and the formatter after the call
registerExitHandler(registered, listeners, f, t) ==
  IF registered
    THEN [registered |-> TRUE, listeners |-> listeners,
          f |-> addSystemLog(f, "Exit handler already registered, skipping registration", t)]
    ELSE [registered |-> TRUE, listeners |-> listeners + 1, f |-> f]

\* har-logger removeExitHandler: the same, and the value returned
removeExitHandler(registered, listeners, f, t) ==
  IF registered
    THEN [registered |-> FALSE, listeners |-> IF listeners > 0 THEN listeners - 1 ELSE 0,
          f |-> addSystemLog(f, "Exit handler removed", t), ret |-> TRUE]
    ELSE [registered |-> FALSE, listeners |-> listeners, f |-> f, ret |-> FALSE]

\* the notes addSystemLog has written to the comment of the log
Notes == Cardinality(Occurrences(formatter.harData.log.comment.v, "\n", 1))

\* harFormatter.initializeLog(logsDir, options) called directly
InitializeLog ==
  /\ ~exited
  /\ \E autoSave \in BOOLEAN :
       /\ autoSave => Cardinality(timers) < MaxTimers
       /\ \E done \in {InitializeLogOf(formatter, files, timers, LogsDir, autoSave, now)} :
            /\ formatter' = done.f
            /\ files' = done.fs
            /\ timers' = done.timers
       /\ last' = [op |-> "initializeLog", autoSave |-> autoSave]
  /\ UNCHANGED <<now, loggerVars, processVars, reqs>>

\* har-logger initializeLogging(): initializeLog with autoSave, then the note
InitializeLogging ==
  /\ ~exited
  /\ Cardinality(timers) < MaxTimers
  /\ Notes < MaxNotes
  /\ \E done \in {InitializeLogOf(formatter, files, timers, LogsDir, TRUE, now)} :
       /\ formatter' = addSystemLog(done.f, "HTTP traffic logging initialized", now)
       /\ files' = done.fs
       /\ timers' = done.timers
  /\ last' = [op |-> "initializeLogging"]
  /\ UNCHANGED <<now, loggerVars, processVars, reqs>>

\* harFormatter.cleanup() called directly
Cleanup ==
  /\ ~exited
  /\ \E done \in {cleanup(formatter, files, timers)} :
       /\ formatter' = done.f
       /\ files' = done.fs
       /\ timers' = done.timers
  /\ last' = [op |-> "cleanup"]
  /\ UNCHANGED <<now, loggerVars, processVars, reqs>>

\* har-logger registerExitHandler()
RegisterExitHandler ==
  /\ ~exited
  /\ exitHandlerRegistered => Notes < MaxNotes
  /\ \E done \in {registerExitHandler(exitHandlerRegistered, beforeExit, formatter, now)} :
       /\ exitHandlerRegistered' = done.registered
       /\ beforeExit' = done.listeners
       /\ formatter' = done.f
  /\ last' = [op |-> "registerExitHandler", registered |-> exitHandlerRegistered,
               listeners |-> beforeExit]
  /\ UNCHANGED <<now, files, timers, loggerVars, exited, reqs>>

\* har-logger removeExitHandler()
RemoveExitHandler ==
  /\ ~exited
  /\ exitHandlerRegistered => Notes < MaxNotes
  /\ \E done \in {removeExitHandler(exitHandlerRegistered, beforeExit, formatter, now)} :
       /\ exitHandlerRegistered' = done.registered
       /\ beforeExit' = done.listeners
       /\ formatter' = done.f
       /\ last' = [op |-> "removeExitHandler", listeners |-> beforeExit, ret |-> done.ret]
  /\ UNCHANGED <<now, files, timers, loggerVars, exited, reqs>>

NextLife ==
  \/ Tick
  \/ AutoSave
  \/ ExitHandler
  \/ InitializeLog
  \/ InitializeLogging
  \/ Cleanup
  \/ RegisterExitHandler
  \/ RemoveExitHandler

SpecLife == Init /\ [][NextLife]_vars

(***************************************************************************)
(* Properties.  reqs holds the requests in the order the wrappers opened   *)
(* them.                                                                   *)
(***************************************************************************)
\* what the wrapper of request r handed to logRequest
Opened(r) ==
  IF r.kind = "http"
    THEN LET p == normalizeRequestParams(r.input)
         IN [method |-> p.method, host |-> p.host, path |-> p.path,
             url |-> FullUrl(p.host, p.path, r.input.isHttps),
             headers |-> LoggedHeaders(p)]
    ELSE LET config == AxiosConfig(r.input)
             u == ParseUrl(config.url)
         IN [method |-> config.method, host |-> u.host, path |-> u.path,
             url |-> FullUrl(u.host, u.path, StartsWith(config.url, "https:")),
             headers |-> config.headers]

\* the requests opened under the identifier of request r
SameId(r) == {j \in 1..Len(reqs) : reqs[j].requestId = reqs[r].requestId}

\* C1: the i-th entry of log.entries is the entry of the i-th open, whatever
\* closes have happened in between and in whatever order: it has that
\* request's method, url, source and opening time, and requestMap gives the
\* position i for an identifier used by that request only.
C1_EntryOrderIsOpenOrder ==
  /\ Len(entries) = Len(reqs)
  /\ \A i \in 1..Len(reqs) :
       /\ entries[i].request.method = Opened(reqs[i]).method
       /\ entries[i].request.url = Opened(reqs[i]).url
       /\ entries[i].meta.interceptorType = reqs[i].kind
       /\ \E t \in 0..MaxTime, random \in Randoms :
            /\ reqs[i].requestId = createRequestId(t, random)
            /\ entries[i].startedDateTime = ToISOString(t)
       /\ SameId(i) = {i} => formatter.requestMap[reqs[i].requestId] = i

\* two different exchanges with identifiers of their own, the second closed
\* while the first is still open
C1_Witness ==
  /\ Len(entries) = 2
  /\ reqs[1].requestId # reqs[2].requestId
  /\ Opened(reqs[1]).url # Opened(reqs[2]).url
  /\ entries[1].response.status = 0
  /\ entries[2].response.status # 0

\* C2: every identifier passed to addRequest has exactly one entry, and
\* requestMap maps the identifier to the index of that entry.
C2_OneEntryPerIdentifier ==
  \A r \in 1..Len(reqs) :
    /\ Cardinality(SameId(r)) = 1
    /\ formatter.requestMap[reqs[r].requestId] = r

\* the fields of record a other than those named are the fields of record b
SameExcept(a, b, names) ==
  /\ (DOMAIN a) \ names = (DOMAIN b) \ names
  /\ \A k \in (DOMAIN a) \ names : a[k] = b[k]

ResponseWith(status) == CHOOSE res \in ResponseInputs : res.statusCode = status

\* C4: a logResponse that reaches addResponse with an identifier that was
\* never opened gets null from it, and the call leaves the document (entries,
\* pages, notes), the formatter's maps and the file on disk as they were.
C4_MissLeavesDocument ==
  [][(/\ last'.op = "logResponse"
      /\ last'.id \notin DOMAIN formatter.requestMap
      /\ getResponseKey(last'.id, last'.status) \notin loggedResponses)
     => /\ last'.added = Null
        /\ formatter' = formatter
        /\ files' = files]_vars

\* a miss while the document holds an entry that the file on disk does not
\* show yet
C4_Witness ==
  /\ last.op = "logResponse"
  /\ last.added = Null
  /\ Len(entries) > 0
  /\ files[formatter.logFile.v] # Stringify(formatter.harData)

\* C5: the first logResponse of an (id, status) pair returns false and, where
\* requestMap has an entry for the id, leaves that entry with the status,
\* status text, headers and cookies of the response; every later logResponse
\* of the pair returns true and changes neither the document nor the file.
C5_FirstAppliesLaterSkips ==
  [][last'.op = "logResponse" =>
       LET id == last'.id
           res == ResponseWith(last'.status)
       IN IF getResponseKey(id, res.statusCode) \notin loggedResponses
            THEN /\ last'.ret = <<FALSE>>
                 /\ getResponseKey(id, res.statusCode) \in loggedResponses'
                 /\ id \in DOMAIN formatter.requestMap =>
                      LET response == entries'[formatter.requestMap[id]].response
                      IN /\ last'.added = N(formatter.requestMap[id])
                         /\ response.status = res.statusCode
                         /\ response.statusText = res.statusMessage
                         /\ response.headers = formatHeaders(res.headers)
                         /\ response.cookies = extractSetCookies(res.headers)
                         /\ files'[formatter.logFile.v] = Stringify(formatter'.harData)
            ELSE /\ last'.ret = <<TRUE>>
                 /\ last'.added = Undefined
                 /\ formatter' = formatter
                 /\ files' = files]_vars

\* a repeated pair on an entry that carries the response of the first call
C5_Witness ==
  /\ last.op = "logResponse"
  /\ last.ret = <<TRUE>>
  /\ last.id \in DOMAIN formatter.requestMap
  /\ entries[formatter.requestMap[last.id]].response.status = last.status

\* C6: logRequest returns true iff an earlier logRequest of the process had
\* the same method, host and path, however long ago; whatever it returns, the
\* call appends one entry of its own, leaves the earlier entries as they were,
\* and the new entry has its method, url, version, headers, cookies, query
\* parameters and header size filled in and the placeholder response.
C6_DuplicateFlagAndOwnEntry ==
  [][last'.op = "logRequest" =>
       LET new == Opened(reqs'[Len(reqs')])
           entry == entries'[Len(entries')]
       IN /\ last'.ret = (\E j \in 1..Len(reqs) :
                            <<Opened(reqs[j]).method, Opened(reqs[j]).host,
                              Opened(reqs[j]).path>> = <<new.method, new.host, new.path>>)
          /\ Len(entries') = Len(entries) + 1
          /\ SubSeq(entries', 1, Len(entries)) = entries
          /\ entry.request.method = new.method
          /\ entry.request.url = new.url
          /\ entry.request.httpVersion = "HTTP/1.1"
          /\ entry.request.headers = formatHeaders(new.headers)
          /\ Len(entry.request.headers) = Len(new.headers.v)
          /\ entry.request.cookies = extractCookies(new.headers)
          /\ Len(entry.request.cookies) = (IF Truthy(Get(new.headers, "cookie")) THEN 2 ELSE 0)
          /\ entry.request.queryString = extractQueryParams(new.url)
          /\ Len(entry.request.queryString) = (IF Contains(new.url, "?") THEN 1 ELSE 0)
          /\ entry.request.headersSize = calculateHeadersSize(entry.request.headers)
          /\ entry.request.headersSize >= 2
          /\ entry.response = PlaceholderResponse]_vars

\* a second request with the method, host and path of the first, a
\* millisecond later: flagged, and both entries are there
C6_Witness ==
  /\ last.op = "logRequest"
  /\ last.ret = TRUE
  /\ Len(entries) = 2
  /\ reqs[1].requestId # reqs[2].requestId
  /\ entries[1].request.url = entries[2].request.url
  /\ entries[1].request.method = entries[2].request.method

\* the notes of the document
Comment == formatter.harData.log.comment.v

\* the snapshot on disk
Snapshot == files[formatter.logFile.v]

\* the identifiers in the pending set
Pending == {pendingRequestIds[i] : i \in 1..Len(pendingRequestIds)}

\* C7: once the shutdown handler has run, the notes name the method and the
\* url of every exchange that was opened and has had no response logged.
C7_EveryOpenExchangeReported ==
  exited =>
    \A r \in 1..Len(reqs) :
      reqs[r].res = Null =>
        Contains(Comment, Opened(reqs[r]).method \o " " \o Opened(reqs[r]).url)

\* C8: once the shutdown handler has run, the snapshot on disk is the
\* document with every note in it, the warning and one orphan note for each
\* pending identifier among them, and no periodic timer is armed.
C8_NotesBeforeFinalSnapshot ==
  exited =>
    /\ Snapshot = Stringify(formatter.harData)
    /\ Len(pendingRequestIds) > 0 =>
         Contains(Snapshot.log.comment,
                  "WARNING: Found " \o ToString(Len(pendingRequestIds)) \o " requests")
    /\ \A id \in Pending :
         Contains(Snapshot.log.comment,
                  "- Orphaned request: " \o requestMethodMap[id] \o " " \o requestUrlMap[id]
                  \o " (ID: " \o id \o ")")
    /\ timers = {}
    /\ formatter.autoSaveInterval = 0

\* a shutdown with two exchanges pending
C8_Witness ==
  /\ exited
  /\ Cardinality(Pending) = 2

\* the last http request opened under the identifier of request r
LastTracked(r) ==
  CHOOSE j \in SameId(r) :
    /\ reqs[j].kind = "http"
    /\ \A k \in SameId(r) : reqs[k].kind = "http" => k <= j

\* C9: an identifier enters the pending set when the wrapper tracks a request
\* under it, leaves it when a response to a request under it is observed, and
\* nothing else changes the set; untrackRequest of an identifier that is not
\* pending gives the set back as it is; and getRequestInfo gives the method
\* and url tracked for an identifier, pending or resolved.
C9_PendingSet ==
  /\ [](/\ \A id \in RequestIds \ Pending :
              untrackRequest(pendingRequestIds, id) = pendingRequestIds
         /\ \A r \in 1..Len(reqs) :
              reqs[r].kind = "http" =>
                LET p == normalizeRequestParams(reqs[LastTracked(r)].input)
                    info == getRequestInfo(requestMethodMap, requestUrlMap,
                                           reqs[r].requestId)
                IN info.method = p.method /\ info.url = p.url)
  /\ [][LET tracked == Len(reqs') > Len(reqs) /\ reqs'[Len(reqs')].kind = "http"
            responded == {r \in 1..Len(reqs) : /\ reqs[r].kind = "http"
                                                /\ reqs[r].stage = "open"
                                                /\ reqs'[r].stage = "responded"}
        IN /\ Cardinality(Pending') = Len(pendingRequestIds')
           /\ IF tracked
                THEN Pending' = Pending \union {reqs'[Len(reqs')].requestId}
                ELSE Pending' = Pending \ {reqs[r].requestId : r \in responded}]_vars

\* a request with two response listeners has been answered, so that the
\* second listener untracked an identifier no longer pending, and another
\* request is still pending
C9_Witness ==
  /\ Len(pendingRequestIds) = 1
  /\ \E r \in 1..Len(reqs) :
       /\ reqs[r].kind = "http"
       /\ reqs[r].listeners = 2
       /\ reqs[r].stage = "done"
       /\ reqs[r].requestId \notin Pending
       /\ getRequestInfo(requestMethodMap, requestUrlMap, reqs[r].requestId).url
            = normalizeRequestParams(reqs[r].input).url

\* what logResponse hands to addResponse for a response
ResponseData(res) ==
  [requestId |-> "", statusCode |-> res.statusCode, statusText |-> S(res.statusMessage),
   headers |-> res.headers, body |-> Undefined, httpVersion |-> "HTTP/1.1"]

\* the body of a response as the wrappers log it
LoggedBody(res) ==
  decompressResponseBody(res.body,
                         StringOf(Or(Get(res.headers, "content-encoding"), S("")))).text

\* C10 as stated: in the snapshot on disk the response of every entry is the
\* placeholder or has the status, the headers and the body of one response.
C10_ResponseWhole ==
  \A i \in 1..Len(Snapshot.log.entries) :
    LET response == Snapshot.log.entries[i].response
    IN \/ response = PlaceholderResponse
       \/ \E res \in ResponseInputs :
            /\ response.status = res.statusCode
            /\ response.headers = formatHeaders(res.headers)
            /\ response.content.text = LoggedBody(res)

\* C10, amended: in the snapshot on disk the response of every entry has,
\* apart from its content and body size, all the fields of the placeholder
\* or all the fields addResponse derives from one response; its content is
\* either the one that came with those fields (no body logged yet) or one
\* logged body, whole, with its size.
C10_ResponseFieldsTogether ==
  \A i \in 1..Len(Snapshot.log.entries) :
    LET response == Snapshot.log.entries[i].response
    IN \E base \in {PlaceholderResponse}
                   \union {ResponseOf(ResponseData(res)) : res \in ResponseInputs} :
         /\ SameExcept(response, base, {"content", "bodySize"})
         /\ \/ response.content = base.content /\ response.bodySize = base.bodySize
            \/ \E res \in ResponseInputs :
                 /\ LoggedBody(res) # ""
                 /\ response.content.text = LoggedBody(res)
                 /\ response.content.size = ByteLength(LoggedBody(res))
                 /\ response.bodySize = ByteLength(LoggedBody(res))

\* the snapshot written by addResponse while the body of the response is
\* being decompressed: status and headers, no content yet
C10_Witness ==
  \E i \in 1..Len(Snapshot.log.entries) :
    /\ reqs[i].stage = "decompressing"
    /\ Snapshot.log.entries[i].response.status = reqs[i].res.statusCode
    /\ Snapshot.log.entries[i].response.content.text = ""

(***************************************************************************)
(* C11.  Two consecutive serializations, by getHarString or by saveHar,    *)
(* with no call in between give the same text, and a serialization leaves  *)
(* the formatter as it was.                                                *)
(***************************************************************************)
Serializations == {"getHarString", "saveHar"}

\* the text the last serialization produced
Output == IF last.op = "getHarString" THEN last.ret ELSE files[formatter.logFile.v]

C12_AlwaysSchemaValid ==
  /\ {"version", "creator", "entries"} \subseteq DOMAIN getHarString(formatter).log
  /\ validateHar(formatter)
  /\ Len(getHarString(formatter).log.entries) = Len(reqs)
  /\ \A r \in 1..Len(reqs) :
       /\ getHarString(formatter).log.entries[r].request.url = Opened(reqs[r]).url
       /\ getHarString(formatter).log.entries[r].request.method = Opened(reqs[r]).method
       /\ (reqs[r].stage = "open" /\ SameId(r) = {r}) =>
            getHarString(formatter).log.entries[r].response = PlaceholderResponse

\* one exchange closed and another one, opened later, still open
C12_Witness ==
  /\ Len(reqs) = 2
  /\ reqs[1].requestId # reqs[2].requestId
  /\ reqs[1].stage = "done"
  /\ reqs[2].stage = "open"
  /\ getHarString(formatter).log.entries[2].response.status = 0

(***************************************************************************)
(* C13.  A call made for one exchange changes the entry of that exchange   *)
(* only.                                                                   *)
(***************************************************************************)
\* the requests a step of a wrapper acted for: the one it opened or the one
\* whose record it changed
Acted(r) == r > Len(reqs) \/ reqs'[r] # reqs[r]

\* C13: whenever a wrapper calls logRequestBody, logResponse or
\* logResponseBody with the identifier of its exchange, every entry but the
\* entry of that exchange stays as it was, whichever entry was opened last.
C13_OnlyOwnEntry ==
  [][\A r \in 1..Len(reqs') :
       Acted(r) => \A i \in 1..Len(entries) : i # r => entries'[i] = entries[i]]_vars

(***************************************************************************)
(* C14.  createRequestId never returns an identifier twice.                *)
(***************************************************************************)
\* C14: the identifiers createRequestId has returned to the wrappers are
\* pairwise different, also for calls within one millisecond.
C14_NeverReturnedTwice ==
  \A i, j \in 1..Len(reqs) : i # j => reqs[i].requestId # reqs[j].requestId

(***************************************************************************)
(* C15.  No failure while a response is recorded, decompressed,            *)
(* chunk-decoded or formatted leaves the wrapper's event handlers.         *)
(***************************************************************************)
\* C15: no 'response' or 'end' handler of the wrapper ends with an exception
\* or a rejected promise, whatever the content of the response is.
C15_NothingEscapes == "rejected" \in DOMAIN last => ~last.rejected

(***************************************************************************)
(* C16.  Every failure that is recovered from leaves a system note.        *)
(***************************************************************************)
\* the body of the response is a compressed stream that cannot be
\* decompressed, or chunk framing that cannot be decoded
Degraded(res) ==
  \/ HasGzipMagic(res.body) /\ ~CanDecode("gzip", res.body)
  \/ HasZlibHeader(res.body) /\ ~CanDecode("deflate", res.body)
  \/ ChunkedNote(res.headers, res.body) # ""

\* C16: when the wrapper has finished with a response body it could not
\* decompress or decode and has logged it as it came, the notes of the
\* document have grown.
C16_RecoveredFailureNoted ==
  [][\A r \in 1..Len(reqs) :
       (reqs[r].stage = "decompressing" /\ reqs'[r].stage = "done" /\ Degraded(reqs[r].res))
         => Comment' # Comment]_vars

(***************************************************************************)
(* C17.  addRequest and addResponse do not raise, whatever the shape of    *)
(* the headers.                                                            *)
(***************************************************************************)
\* C17: a call of addRequest returns with the entry created, and a call of
\* addResponse for a known identifier returns with the response set,
\* for headers of every shape.
C17_NeverRaises ==
  /\ last.op = "addRequest" =>
       /\ ~last.threw
       /\ last.id \in DOMAIN formatter.requestMap
  /\ (last.op = "addResponse" /\ last.id \in DOMAIN formatter.requestMap) =>
       /\ ~last.threw
       /\ entries[formatter.requestMap[last.id]].response.status = 200

(***************************************************************************)
(* C18.  The total time of a closed entry is max(1, sum of its phases that *)
(* are not negative).                                                      *)
(***************************************************************************)
RECURSIVE SumOfPhases(_, _)
\* the sum of the phases of the given names that are >= 0
SumOfPhases(timings, names) ==
  IF names = {} THEN 0
  ELSE LET n == CHOOSE x \in names : TRUE
       IN (IF timings[n] >= 0 THEN timings[n] ELSE 0) + SumOfPhases(timings, names \ {n})

\* the entry the last call was made for
LastEntry == entries[formatter.requestMap[last.id]]

\* addResponse has just returned the entry of a known identifier
Closed == last.op = "addResponse" /\ last.ret # Null /\ ~last.threw

\* C18: after addResponse has returned for an entry, the entry's time is
\* max(1, sum of its timing phases that are >= 0), hence at least 1.
C18_TotalTime ==
  Closed =>
    /\ LastEntry.time = Max(1, SumOfPhases(LastEntry.timings, DOMAIN LastEntry.timings))
    /\ LastEntry.time >= 1

\* an entry closed in the millisecond it was opened in: no phase has a
\* duration and the time is 1
C18_Witness ==
  /\ Closed
  /\ SumOfPhases(LastEntry.timings, DOMAIN LastEntry.timings) = 0
  /\ LastEntry.time = 1

(***************************************************************************)
(* C19.  A phase duration recorded with updateTiming is the duration the   *)
(* closed entry shows for that phase.                                      *)
(***************************************************************************)
\* updateTiming has just recorded a duration for an open request and
\* addResponse closes that request in the next step
ClosedAfterUpdate ==
  /\ last.op = "updateTiming"
  /\ last.id \in DOMAIN formatter.requestTimings
  /\ last'.op = "addResponse"
  /\ last'.id = last.id
  /\ last'.ret # Null
  /\ ~last'.threw

\* C19: a duration d >= 0, 0 included, recorded for a phase of a request is
\* the timing of that phase in the entry once addResponse has closed it.
C19_RecordedPhaseKept ==
  [][ClosedAfterUpdate =>
       entries'[formatter.requestMap[last.id]].timings[last.phase] = last.duration]_vars

(***************************************************************************)
(* C20.  decodeChunkedResponse raises on broken chunk framing.  The        *)
(* framing of a text is read by the grammar: hex size, optional            *)
(* extensions after ';', CRLF, and for a size other than 0 that many       *)
(* characters of data and CRLF.                                            *)
(***************************************************************************)
RECURSIVE HexRun(_, _)
\* the number of hex digits the text has from pos on
HexRun(text, pos) ==
  IF pos < Len(text) /\ IsHex(Substring(text, pos, pos + 1))
    THEN 1 + HexRun(text, pos + 1) ELSE 0

\* the end of a size line whose digits end at pos: -1 when neither CRLF nor
\* extensions closed by CRLF follow
SizeLineEnd(text, pos) ==
  IF Substring(text, pos, pos + 1) = ";" THEN IndexOfFrom(text, "\r\n", pos)
  ELSE IF Substring(text, pos, pos + 2) = "\r\n" THEN pos
  ELSE -1

RECURSIVE Defect(_, _)
\* what is wrong with the framing of the text from pos on
Defect(text, pos) ==
  IF pos >= Len(text) THEN "no terminating chunk"
  ELSE IF HexRun(text, pos) = 0 THEN "no size"
  ELSE IF SizeLineEnd(text, pos + HexRun(text, pos)) = -1 THEN "no CRLF after size"
  ELSE With([size |-> ParseInt16(Substring(text, pos, pos + HexRun(text, pos))).v,
             data |-> SizeLineEnd(text, pos + HexRun(text, pos)) + 2],
            LAMBDA c :
              IF c.size = 0 THEN "none"
              ELSE IF c.data + c.size > Len(text) THEN "data overruns"
              ELSE IF Substring(text, c.data + c.size, c.data + c.size + 2) # "\r\n"
                THEN "no CRLF after data"
              ELSE Defect(text, c.data + c.size + 2))

\* C20: for a text that lacks the CRLF after a size line, lacks the CRLF
\* after a chunk's data, or has a chunk whose data overruns the text,
\* decodeChunkedResponse raises an error and returns no body.
C20_BrokenFramingRaises ==
  (/\ last.op = "decodeChunkedResponse"
   /\ Defect(last.text, 0) \in {"no CRLF after size", "no CRLF after data", "data overruns"})
    => last.ret.error # ""

(***************************************************************************)
(* C21.  Decoding the chunked form of a body gives the body back.          *)
(***************************************************************************)
RECURSIVE Concat(_)
\* the texts of a sequence, joined
Concat(texts) == IF texts = <<>> THEN "" ELSE Head(texts) \o Concat(Tail(texts))

\* C21: for every body and every way of splitting it into chunks, chunks
\* of length zero included, decodeChunkedResponse of the chunked form of
\* the chunks raises nothing and returns exactly the bytes of the body.
C21_RoundTrip ==
  (last.op = "decodeChunkedResponse" /\ "chunks" \in DOMAIN last)
    => /\ last.ret.error = ""
       /\ last.ret.body = BufferFrom(Concat(last.chunks))

(***************************************************************************)
(* C22.  The body and the chunk records of a well-formed input.            *)
(***************************************************************************)
\* the sizes in bytes of the chunks, as the records of the result hold them
SizesOf(chunks) == [i \in 1..Len(chunks) |-> N(Len(BufferFrom(chunks[i])))]

\* the input is the chunked form of chunks that all hold data
WellFormed ==
  /\ last.op = "decodeChunkedResponse"
  /\ "chunks" \in DOMAIN last
  /\ \A i \in 1..Len(last.chunks) : last.chunks[i] # ""

\* C22: for a well-formed input the decoded body is the data of the chunks
\* before the terminating one, joined in order, and the chunk list has one
\* record per chunk in the order of the input, the last one being the
\* terminating record of size 0.
C22_BodyAndChunkRecords ==
  WellFormed
    => /\ last.ret.body = BufferFrom(Concat(last.chunks))
       /\ last.ret.chunks = Append(SizesOf(last.chunks), N(0))

(***************************************************************************)
(* C23.  isChunkedResponse finds the chunked coding.                       *)
(***************************************************************************)
\* the codings a header value lists, separated by commas
CodingsOf(value) ==
  IF value.t \in {"null", "undefined"} THEN {}
  ELSE {ToLowerCase(Trim(Split(StringOf(value), ",")[i])) :
          i \in 1..Len(Split(StringOf(value), ","))}

\* the headers hold a transfer-encoding header, in any letter-casing of
\* its name, that lists the coding chunked
ListsChunked(headers) ==
  /\ headers.t = "obj"
  /\ \E i \in 1..Len(headers.v) :
       /\ ToLowerCase(headers.v[i][1]) = "transfer-encoding"
       /\ "chunked" \in CodingsOf(headers.v[i][2])

\* C23: isChunkedResponse(headers) is true exactly when headers holds a
\* transfer-encoding header, under any letter-casing of the name, whose
\* comma-separated list of codings contains chunked; it is false for null,
\* undefined and headers without that header.
C23_TrueIffChunkedListed ==
  last.op = "isChunkedResponse" => (last.ret <=> ListsChunked(last.headers))

(***************************************************************************)
(* C24.  A chain of codings is undone.                                     *)
(***************************************************************************)
\* the name a coding is declared under: zlib and raw deflate are both deflate
DeclaredAs(layer) == IF layer = "raw" THEN "deflate" ELSE layer

\* the call is for bytes under a chain of at least one supported coding,
\* with the content-encoding value that lists the chain
ChainDeclared ==
  /\ last.op = "decompressResponseBody"
  /\ Len(last.buffer.layers) >= 1
  /\ \A i \in 1..Len(last.buffer.layers) : last.buffer.layers[i] \in {"gzip", "deflate", "raw", "br"}
  /\ last.contentEncoding
       = ListOf([i \in 1..Len(last.buffer.layers) |-> DeclaredAs(last.buffer.layers[i])])

\* C24: for bytes B under a chain of supported codings E1..En applied in
\* this order, decompressResponseBody(encoded, "E1, E2, ..., En") undoes the
\* codings last first and returns B as text, logging no failure.
C24_ChainUndone ==
  ChainDeclared => (last.ret.text = last.buffer.text /\ last.ret.notes = <<>>)

\* a chain of two different codings has been undone
C24_Witness ==
  /\ ChainDeclared
  /\ last.buffer.layers = <<"gzip", "deflate">>
  /\ last.buffer.text = "hi"
  /\ last.ret.text = "hi"

(***************************************************************************)
(* C25.  A declared stage that fails is logged and passed over.            *)
(***************************************************************************)
RECURSIVE Undo(_, _, _)
\* the declared codings i, i - 1, .., 1 tried in turn on the bytes: the
\* bytes left, the codings that failed, and how many were undone
Undo(encodings, i, acc) ==
  IF i = 0 THEN acc
  ELSE IF encodings[i] \notin Declarable THEN Undo(encodings, i - 1, acc)
  ELSE IF DeclaredAs(Outer(acc.result)) = encodings[i]
    THEN Undo(encodings, i - 1, [acc EXCEPT !.result = Peel(@), !.undone = @ + 1])
  ELSE Undo(encodings, i - 1, [acc EXCEPT !.failed = Append(@, encodings[i])])

\* the outcome of the declared stages of the call
Stages ==
  Undo(TrimAll(Split(last.contentEncoding, ",")), Len(Split(last.contentEncoding, ",")),
       [result |-> last.buffer, failed |-> <<>>, undone |-> 0])

\* the call was for a body with bytes, and a declared stage failed
StageFailed ==
  /\ last.op = "decompressResponseBody"
  /\ BufferToString(last.buffer) # ""
  /\ Len(Stages.failed) >= 1

\* C25: when a declared content-encoding stage fails, decompressResponseBody
\* logs the failure, gives the bytes unchanged to the next stage, goes on
\* with the remaining stages, and resolves to text: every failed stage has
\* its note, in the order of the stages, the text is that of the bytes with
\* the stages that succeeded undone, and when none succeeded and the bytes
\* do not start like a gzip or zlib stream, the text of the bytes as given.
C25_FailedStagePassedOver ==
  StageFailed
    => /\ Len(last.ret.notes) >= Len(Stages.failed)
       /\ \A i \in 1..Len(Stages.failed) :
            StartsWith(last.ret.notes[i], "Decompression error (" \o Stages.failed[i] \o "): ")
       /\ Stages.undone > 0
            => (last.ret.text = BufferToString(Stages.result)
                /\ Len(last.ret.notes) = Len(Stages.failed))
       /\ (Stages.undone = 0 /\ ~HasGzipMagic(last.buffer) /\ ~HasZlibHeader(last.buffer))
            => (last.ret.text = BufferToString(last.buffer)
                /\ Len(last.ret.notes) = Len(Stages.failed))

\* the stage br failed on gzip bytes and the stage gzip after it succeeded
C25_Witness ==
  /\ StageFailed
  /\ last.contentEncoding = "gzip, br"
  /\ last.buffer = Buffer("hi", <<"gzip">>)
  /\ last.ret.text = "hi"
  /\ Len(last.ret.notes) = 1

(***************************************************************************)
(* C26.  Deltas accumulate on the block of their index.  The claim is      *)
(* stated step by step: what a start makes of its block, what a delta      *)
(* makes of a started block, and that nothing else touches a block.        *)
(***************************************************************************)
\* the step is a call of processEvent
EventStep == "message" \in DOMAIN last /\ last'.op = "processEvent"

\* the content index the event of the step names
IndexOfStep == StringOf(Get(last'.eventData, "index"))

\* the delta of the step, of the given type
DeltaOfStep(deltaType) ==
  /\ last'.eventType = "content_block_delta"
  /\ Get(Get(last'.eventData, "delta"), "type") = S(deltaType)

\* block i before the step was started with the given type
StartedAs(i, blockType) == i \in DOMAIN last.message.content /\ last.message.content[i].type = S(blockType)

\* the value the delta of the step has for a field
DeltaField(field) == Get(Get(last'.eventData, "delta"), field)

\* the object has the value for the name
HasPair(object, name, value) == \E p \in 1..Len(object.v) : object.v[p] = <<name, value>>

\* the tool_use object after the step is the one before with the pairs of
\* the delta assigned key by key
ShallowMerged(before, delta, after) ==
  /\ \A p \in 1..Len(delta.v) : HasPair(after, delta.v[p][1], delta.v[p][2])
  /\ \A p \in 1..Len(before.v) :
       PairIndex(delta.v, before.v[p][1]) = 0 => HasPair(after, before.v[p][1], before.v[p][2])
  /\ \A p \in 1..Len(after.v) :
       PairIndex(delta.v, after.v[p][1]) # 0 \/ PairIndex(before.v, after.v[p][1]) # 0

C26_Step ==
  EventStep =>
    /\ \A blockType \in {"text", "thinking", "tool_use"} :
         (last'.eventType = "content_block_start" /\ BlockTypeOf(last'.eventData) = S(blockType))
           => last'.message.content[IndexOfStep][blockType]
                = (IF blockType = "tool_use" THEN Obj(<<>>) ELSE S(""))
    /\ (DeltaOfStep("text_delta") /\ StartedAs(IndexOfStep, "text"))
         => last'.message.content[IndexOfStep].text
              = S(last.message.content[IndexOfStep].text.v \o DeltaField("text").v)
    /\ (DeltaOfStep("thinking_delta") /\ StartedAs(IndexOfStep, "thinking"))
         => last'.message.content[IndexOfStep].thinking
              = S(last.message.content[IndexOfStep].thinking.v \o DeltaField("thinking").v)
    /\ (DeltaOfStep("tool_use_delta") /\ StartedAs(IndexOfStep, "tool_use"))
         => ShallowMerged(last.message.content[IndexOfStep].tool_use, DeltaField("tool_use"),
                          last'.message.content[IndexOfStep].tool_use)
    /\ \A i \in DOMAIN last.message.content :
         \/ /\ last'.eventType \in {"content_block_start", "content_block_delta"}
            /\ IndexOfStep = i
         \/ /\ i \in DOMAIN last'.message.content
            /\ last'.message.content[i] = last.message.content[i]

\* C26: after content_block_start(i) of type text, content[i].text is the
\* texts of the text deltas for index i received since that start, joined
\* in the order of arrival; likewise thinking deltas on the thinking string
\* and tool_use deltas merged key by key into the tool_use object; events
\* for other indices, and other events, leave block i as it is.
C26_DeltasAccumulate == [][C26_Step]_vars

\* two text deltas have arrived for a started text block
C26_Witness ==
  /\ last.op = "processEvent"
  /\ "0" \in DOMAIN last.message.content
  /\ last.message.content["0"].type = S("text")
  /\ last.message.content["0"].text = S("ab")

(***************************************************************************)
(* C27.  A delta for an index that was never started.                      *)
(***************************************************************************)
\* the step is a content_block_delta that carries a delta, for an index
\* the content has no block at
DeltaForNewIndex ==
  /\ EventStep
  /\ last'.eventType = "content_block_delta"
  /\ Get(last'.eventData, "delta").t = "obj"
  /\ IndexOfStep \notin DOMAIN last.message.content

C27_Step ==
  DeltaForNewIndex =>
    /\ IndexOfStep \in DOMAIN last'.message.content
    /\ last'.message.content[IndexOfStep].type = S("unknown")
    /\ DeltaOfStep("text_delta")
         => last'.message.content[IndexOfStep] = [type |-> S("unknown"), text |-> DeltaField("text")]
    /\ DeltaOfStep("thinking_delta")
         => last'.message.content[IndexOfStep]
              = [type |-> S("unknown"), text |-> S(""), thinking |-> DeltaField("thinking")]
    /\ DeltaOfStep("tool_use_delta")
         => last'.message.content[IndexOfStep]
              = [type |-> S("unknown"), text |-> S(""), tool_use |-> DeltaField("tool_use")]
    /\ \A i \in DOMAIN last.message.content :
         i \in DOMAIN last'.message.content /\ last'.message.content[i] = last.message.content[i]
    /\ DOMAIN last'.message.content = DOMAIN last.message.content \union {IndexOfStep}
    /\ last'.message.errors = last.message.errors
    /\ last'.message.props = last.message.props

\* C27: a content_block_delta whose index was never started creates a
\* block of type unknown at that index and applies the delta to it; the
\* blocks at other indices are unchanged and no error is recorded.
C27_UnknownBlockCreated == [][C27_Step]_vars

\* a delta has created the unknown block 2 beside a started block 0
C27_Witness ==
  /\ last.op = "processEvent"
  /\ DOMAIN last.message.content = {"0", "2"}
  /\ last.message.content["2"] = [type |-> S("unknown"), text |-> S("c")]
  /\ last.message.content["0"].type = S("text")
  /\ last.message.errors = <<>>

(***************************************************************************)
(* C29.  message_delta merges the stop fields and the usage.               *)
(***************************************************************************)
\* the step is a message_delta that carries a delta object
MessageDeltaStep ==
  /\ EventStep
  /\ last'.eventType = "message_delta"
  /\ Get(last'.eventData, "delta").t = "obj"

\* the delta of the step supplies the field
Supplies(field) == PairIndex(Get(last'.eventData, "delta").v, field) # 0

\* the usage of a message, {} when it has none
UsageOf(message) == Or(Prop(message.props, "usage"), Obj(<<>>))

\* the same value, null and undefined both being no value
SameValue(a, b) == a = b \/ (~CanIndex(a) /\ ~CanIndex(b))

C29_Step ==
  /\ MessageDeltaStep =>
       /\ \A field \in {"stop_reason", "stop_sequence"} :
            SameValue(Prop(last'.message.props, field),
                      IF Supplies(field) THEN DeltaField(field)
                      ELSE Prop(last.message.props, field))
       /\ ShallowMerged(UsageOf(last.message), Or(DeltaField("usage"), Obj(<<>>)),
                        UsageOf(last'.message))
  /\ (EventStep /\ last'.eventType \notin {"message_delta", "message_start"}) =>
       \A field \in {"stop_reason", "stop_sequence", "usage"} :
         Prop(last'.message.props, field) = Prop(last.message.props, field)

\* C29: stop_reason, stop_sequence and every usage key hold the value of
\* the latest message_delta that supplied the field, and a field that a
\* message_delta does not supply keeps the value it had from message_start
\* or from earlier deltas; step by step: a message_delta sets exactly the
\* fields it supplies, and no event but message_start and message_delta
\* changes them.
C29_LatestDeltaWins == [][C29_Step]_vars

(***************************************************************************)
(* C28.  parseSSEStream keeps going.                                       *)
(***************************************************************************)
\* the blocks of the call that declare an event type and a payload
EventBlocks == SelectSeq(last.blocks, LAMBDA b : b.payload # "none")

\* the data of an event carry the parse-error marker
HasParseError(data) == data.t = "obj" /\ PairIndex(data.v, "parse_error") # 0

RECURSIVE Folded(_, _)
\* the message after the events, each given to processEvent in turn
Folded(events, message) ==
  IF Len(events) = 0 THEN message
  ELSE Folded(Tail(events), processEvent(events[1].type, events[1].data, message))

\* the call was for a text that is not empty
TextParsed == last.op = "parseSSEStream" /\ last.content.t = "str" /\ last.content.v # ""

\* C28: parseSSEStream does not throw; a block whose payload fails to
\* parse yields one event with a parse-error marker at its position, the
\* blocks after it are parsed and folded into the message like the others,
\* and an empty input or one that is no string yields no events and an
\* empty content list.
C28_ParseKeepsGoing ==
  /\ (last.op = "parseSSEStream" /\ ~TextParsed)
       => /\ last.ret.events = <<>>
          /\ last.ret.reconstructedMessage.content = EmptyMap
          /\ last.ret.reconstructedMessage.errors = <<>>
  /\ TextParsed
       => /\ Len(last.ret.events) = Len(EventBlocks)
          /\ \A i \in 1..Len(EventBlocks) :
               /\ last.ret.events[i].type = EventBlocks[i].type
               /\ HasParseError(last.ret.events[i].data) <=> EventBlocks[i].payload = "text"
          /\ last.ret.reconstructedMessage = Folded(last.ret.events, NewMessage)

\* the first block did not parse and the two after it were folded
C28_Witness ==
  /\ TextParsed
  /\ Len(last.ret.events) = 3
  /\ HasParseError(last.ret.events[1].data)
  /\ "0" \in DOMAIN last.ret.reconstructedMessage.content
  /\ last.ret.reconstructedMessage.content["0"].type = S("text")
  /\ last.ret.reconstructedMessage.content["0"].text = S("a")

(***************************************************************************)
(* C30.  Events that are not folded.                                       *)
(***************************************************************************)
\* ping and the types processEvent has no case for
Unfolded == {"ping", "content_block_stop", "message_stop"}

\* the events but the ones of those types
FoldedEvents(events) == SelectSeq(events, LAMBDA event : event.type \notin Unfolded)

\* C30: ping events and events of an unrecognized type, such as
\* content_block_stop and message_stop, are appended to the raw event list,
\* at the place of their block, and leave the reconstructed message as it
\* is: the message is the one the other events give.
C30_UnfoldedEventsKept ==
  TextParsed
    => /\ \A i \in 1..Len(EventBlocks) :
            EventBlocks[i].type \in Unfolded
              => (Len(last.ret.events) >= i /\ last.ret.events[i].type = EventBlocks[i].type)
       /\ last.ret.reconstructedMessage = Folded(FoldedEvents(last.ret.events), NewMessage)

\* a ping arrived between the start of a block and its delta
C30_Witness ==
  /\ TextParsed
  /\ Len(last.ret.events) = 3
  /\ last.ret.events[2].type = "ping"
  /\ "0" \in DOMAIN last.ret.reconstructedMessage.content
  /\ last.ret.reconstructedMessage.content["0"].text = S("a")

(***************************************************************************)
(* C31.  formatJson of an object that references itself.                    *)
(***************************************************************************)
\* the cells a cell refers to
RefsOf(heap, id) ==
  {heap[id].pairs[i][2].id : i \in {j \in 1..Len(heap[id].pairs) : heap[id].pairs[j][2].t = "ref"}}

RECURSIVE ReachIn(_, _, _)
\* the cells reached from the cells of from in at most n steps
ReachIn(heap, from, n) ==
  IF n = 0 THEN from
  ELSE ReachIn(heap, from \union UNION {RefsOf(heap, id) : id \in from}, n - 1)

\* cell id is reached from itself
OnCycle(heap, id) == id \in ReachIn(heap, RefsOf(heap, id), Len(heap))

\* the object given to formatJson references itself, directly or through a
\* chain of properties
SelfReferencing ==
  /\ last.op = "formatJson"
  /\ last.obj.t = "ref"
  /\ \E id \in ReachIn(last.heap, {last.obj.id}, Len(last.heap)) : OnCycle(last.heap, id)

\* C31: formatJson applied to an object that references itself, directly or
\* through a chain of properties, returns (it does not loop and does not
\* raise) a text in which the circular reference is replaced by the
\* sentinel '[Circular reference]'.
C31_CircularGivesSentinel ==
  SelfReferencing
    => /\ Contains(last.ret, "[Circular reference]")
       /\ ~StartsWith(last.ret, "[Error formatting JSON")

(***************************************************************************)
(* C32.  isLikelyJson.                                                      *)
(***************************************************************************)
\* isLikelyJson has returned for a content
LikelyAnswered == last.op = "isLikelyJson"

\* nothing but white space was put around the text of the content
Bare == last.before \in {"", " "} /\ last.after \in {"", " ", "\n"}

\* C32 as stated: isLikelyJson(text) is true iff text, trimmed, starts with
\* '{' or '[' and parses as JSON; it is false for empty, non-string or
\* unparsable text.
C32_TrueIffParsedObjectOrArray ==
  LikelyAnswered
    => (last.ret <=> /\ last.content.t = "str"
                     /\ Bare
                     /\ last.core.json
                     /\ \/ StartsWith(last.core.text, "{")
                        \/ StartsWith(last.core.text, "["))

\* C32 amended: isLikelyJson is false for a content that is empty or no
\* string.  For a text that, trimmed, is enclosed in braces or in brackets
\* it is true iff the text parses as JSON.  For any other text it is true
\* iff the text holds a quoted property name followed by a colon, or opens
\* an array of objects, whether it parses or not.
C32_ParsedOrJsonPattern ==
  LikelyAnswered
    => (last.ret <=> /\ last.content.t = "str"
                     /\ IF Bare /\ last.core.enclosed THEN last.core.json
                        ELSE last.core.named)

\* a text cut off before its closing brace was taken for JSON
C32_Witness ==
  /\ LikelyAnswered
  /\ last.content = S("{\"name\":\"Test\"")
  /\ last.ret

(***************************************************************************)
(* C33.  The redirect target of a 3xx response.                             *)
(***************************************************************************)
\* addResponse has just closed an entry with a status code and headers
StatusApplied ==
  /\ last.op = "addResponse"
  /\ "statusCode" \in DOMAIN last
  /\ last.ret.t = "num"

\* the response of the entry addResponse returned
AppliedResponse == entries[last.ret.v].response

\* the status code of the call is one of a redirect
IsRedirect == last.statusCode >= 300 /\ last.statusCode <= 399

\* the values of the Location headers of the call, under either name
Locations ==
  {last.headers.v[i][2] :
     i \in {j \in 1..Len(last.headers.v) : last.headers.v[j][1] \in {"location", "Location"}}}

\* C33: addResponse with a 3xx status and a Location header L sets
\* response.redirectURL to L, whether the header is named Location or
\* location (with both, to one of the two); with a 3xx status and no Location
\* header redirectURL is the empty string.
C33_RedirectTarget ==
  StatusApplied /\ IsRedirect
    => IF Locations = {} THEN AppliedResponse.redirectURL = S("")
       ELSE AppliedResponse.redirectURL \in Locations

\* a 302 with Location: /new has closed an entry
C33_Witness ==
  /\ StatusApplied
  /\ last.statusCode = 302
  /\ last.headers = Obj(<< <<"Location", S("/new")>> >>)
  /\ AppliedResponse.redirectURL = S("/new")

(***************************************************************************)
(* C34.  The redirect target of a response that is no redirect.             *)
(***************************************************************************)
\* C34: response.redirectURL is non-empty only for responses whose status
\* is 3xx: for every closed entry with a status outside 300..399 redirectURL
\* is the empty string, even if a Location header is present.
C34_TargetOnlyForRedirects ==
  \A i \in 1..Len(entries) :
    (entries[i].response.status < 300 \/ entries[i].response.status > 399)
      => entries[i].response.redirectURL = S("")

(***************************************************************************)
(* C35.  The cookies of a Set-Cookie list.                                  *)
(***************************************************************************)
\* extractSetCookies has returned for the headers
CookiesExtracted == last.op = "extractSetCookies"

\* the values the segments of cookie i give for a field
FieldValues(i, field) ==
  {last.cookies[i].segments[k].value :
     k \in {j \in 1..Len(last.cookies[i].segments) : last.cookies[i].segments[j].field = field}}

\* cookie i of the result has the name and the whole value of its first
\* segment and the fields of its attribute segments
CookieAsWritten(i) ==
  /\ last.ret[i].name = S(last.cookies[i].first.name)
  /\ last.ret[i].value = S(last.cookies[i].first.value)
  /\ \A field \in {"path", "domain", "expires"} :
       FieldValues(i, field) # {}
         => /\ field \in DOMAIN last.ret[i]
            /\ last.ret[i][field] \in {S(value) : value \in FieldValues(i, field)}
  /\ \A field \in {"httpOnly", "secure"} :
       FieldValues(i, field) # {}
         => field \in DOMAIN last.ret[i] /\ last.ret[i][field] = N(1)

\* C35: for a Set-Cookie list of n cookie strings extractSetCookies yields n
\* cookies in order; each takes its name and its whole value from the first
\* ';'-separated segment (name=value), and its path, domain, expires,
\* httpOnly = true and secure = true from the later segments, matched
\* case-insensitively.
C35_CookiesAsWritten ==
  CookiesExtracted
    => /\ Len(last.ret) = Len(last.cookies)
       /\ \A i \in 1..Len(last.cookies) : CookieAsWritten(i)

(***************************************************************************)
(* C36.  A request whose end() was called more than once.  Every end()     *)
(* registers a response listener; a listener that logResponse does not     *)
(* tell "duplicate" applies the response and is the one that collects and  *)
(* logs the body.                                                           *)
(***************************************************************************)
\* the response listeners of a request have just run, and there were
\* several of them
SeveralListenersRan ==
  /\ last.op = "logResponse"
  /\ "rejected" \in DOMAIN last
  /\ Len(last.ret) >= 2

\* the listeners that were not told "duplicate"
AppliedBy == {i \in 1..Len(last.ret) : last.ret[i] = FALSE}

\* C36: if end() is invoked more than once on a wrapped request, so that
\* several response listeners are registered, the response is applied to the
\* entry exactly once, the response body is logged exactly once (one
\* listener goes on to collect it), and the request leaves the pending set.
C36_AppliedOnce ==
  SeveralListenersRan
    => /\ Cardinality(AppliedBy) = 1
       /\ last.id \notin Pending
       /\ \E r \in 1..Len(reqs) :
            /\ reqs[r].requestId = last.id
            /\ reqs[r].stage = "responded"
            /\ reqs[r].collecting
            /\ entries[formatter.requestMap[last.id]].response.status = last.status

(***************************************************************************)
(* C37.  decodeChunkedResponse comes to an end.                             *)
(***************************************************************************)
\* the call has returned or thrown
CallEnded == last.op \in {"break", "return", "throw"}

\* a pass of the loop after which the loop goes on from a position
PassOn == last.op = "loop" /\ last'.op = "loop" /\ last'.pos.t = "num"

\* C37: decodeChunkedResponse terminates on every finite input: each pass of
\* its loop strictly advances the read position, also when a size line
\* parses to a negative or non-numeric value, and the call returns or
\* throws in the end.
C37_Terminates ==
  /\ [][PassOn => last'.pos.v > last.pos.v]_vars
  /\ <>CallEnded

(***************************************************************************)
(* C38.  One periodic save timer at most.                                   *)
(***************************************************************************)
\* C38: for any sequence of initializeLog and cleanup calls at most one
\* periodic save timer is armed at any time, and after cleanup() no periodic
\* save timer remains armed.
C38_OneSaveTimer ==
  /\ Cardinality(timers) <= 1
  /\ last.op = "cleanup" => timers = {}

(***************************************************************************)
(* C39.  A response that comes before its request is opened.                *)
(***************************************************************************)
\* the document holds one entry, the entry of this id, and no response has
\* been applied to it: every pair in loggedResponses is there from a call
\* that found no entry
OpenedAfterwards(id) ==
  /\ Len(entries) = 1
  /\ id \in DOMAIN formatter.requestMap
  /\ entries[1].response = PlaceholderResponse

\* C39: a logResponse that finds no entry for its id does not mark the
\* (id, status) pair as already applied: when the id is opened afterwards,
\* the next logResponse with the same id and status returns false and is
\* applied to the entry.
C39_EarlyResponseLeavesPairOpen ==
  [][last'.op = "logResponse" =>
       /\ last'.added = Null =>
            getResponseKey(last'.id, last'.status) \notin loggedResponses'
       /\ OpenedAfterwards(last'.id) =>
            /\ last'.ret = <<FALSE>>
            /\ last'.added = N(1)
            /\ entries'[1].response.status = last'.status]_vars

(***************************************************************************)
(* C40.  The beforeExit listener of the logger.                             *)
(***************************************************************************)
\* C40: for any sequence of registerExitHandler and removeExitHandler calls
\* at most one beforeExit listener of the logger is installed at any time;
\* registering while one is installed adds none, removeExitHandler returns
\* true iff a listener was installed and leaves none installed, and
\* registering with none installed installs exactly one.
C40_OneExitListener ==
  /\ beforeExit \in {0, 1}
  /\ last.op = "registerExitHandler" => beforeExit = 1
  /\ last.op = "removeExitHandler" =>
       /\ last.ret = (last.listeners = 1)
       /\ beforeExit = 0

\* a listener has been removed and one has been installed again
C40_Witness ==
  /\ last.op = "registerExitHandler"
  /\ last.listeners = 0
  /\ beforeExit = 1
  /\ Contains(formatter.harData.log.comment.v, "Exit handler removed")

====
